---- MODULE Spec2Model ----
(***************************************************************************)
(* FinOps-Copilot: the enrichment + KPI + recommendation core              *)
(* (app/analytics.py, app/recommendations.py) and the HTTP handlers of     *)
(* app/main.py that wrap it, over the two tables of app/models.py.         *)
(*                                                                         *)
(* Conventions of the model                                                *)
(*  - a table (a DataFrame) is a sequence of records, in row order;        *)
(*  - money is an integer number of cents, so round(x, 2) is rounding to   *)
(*    an integer; ratios (utilization, pct_change, thresholds) are exact   *)
(*    rationals <<num, den>> with den > 0;                                 *)
(*  - a nullable numeric cell is <<>> (SQL NULL / NaN) or <<n>>;           *)
(*  - a resource_id is a sequence of characters, so that str.strip() is    *)
(*    computed; NAid is the missing id (None / NaN);                       *)
(*  - owner, env and months are strings; NA is the missing string;         *)
(*  - dropped is the set of tables that do not exist in the database;      *)
(*  - cache is the directory data/cache: per month, the three files of a   *)
(*    snapshot, each absent (<<>>) or present (<<content>>);               *)
(*  - reqs holds the GET /kpi requests in flight, each with its position   *)
(*    in the handler and its local variables.                              *)
(***************************************************************************)
EXTENDS Integers, Sequences, FiniteSets, TLC

VARIABLES billing, resources, result, dropped, cache, reqs

vars == <<billing, resources, result, dropped, cache, reqs>>

(***************************************************************************)
(* Missing values                                                          *)
(***************************************************************************)
NA == "<NA>"

NAid == <<"<NA>">>

NaN == <<>>

(***************************************************************************)
(* Orders on strings: Python compares strings by code point.  StrOrder     *)
(* lists the strings of the model in that order, CharOrder the characters. *)
(***************************************************************************)
StrOrder == <<"2025-01", "2025-02", "2025-03", "2025-04", "2025-05", "2025-06",
              "2025-07", "2025-08", "2025-09", "NA", "dev", "prod",
              "team1", "team2", "unassigned">>

CharOrder == <<"\t", " ", "1", "2", "3", "4", "N", "a", "e", "n", "o", "r", "s">>

StrRank(s) == CHOOSE i \in 1..Len(StrOrder) : StrOrder[i] = s

CharRank(c) == CHOOSE i \in 1..Len(CharOrder) : CharOrder[i] = c

StrLess(a, b) == StrRank(a) < StrRank(b)

RECURSIVE IdLess(_, _)
IdLess(a, b) ==
    IF a = <<>> THEN b # <<>>
    ELSE IF b = <<>> THEN FALSE
    ELSE IF Head(a) = Head(b) THEN IdLess(Tail(a), Tail(b))
    ELSE CharRank(Head(a)) < CharRank(Head(b))

(***************************************************************************)
(* Exact arithmetic                                                        *)
(***************************************************************************)
\* Python round(): the nearest integer to num/den (den > 0), ties to even.
RoundDiv(num, den) ==
    LET q == num \div den
        r == num % den
    IN  IF 2 * r < den THEN q
        ELSE IF 2 * r > den THEN q + 1
        ELSE IF q % 2 = 0 THEN q ELSE q + 1

RECURSIVE Concat(_)
Concat(ss) == IF ss = <<>> THEN <<>> ELSE Head(ss) \o Concat(Tail(ss))

RECURSIVE SumCost(_)
SumCost(rows) == IF rows = <<>> THEN 0 ELSE Head(rows).cost + SumCost(Tail(rows))

(***************************************************************************)
(* analytics.py: normalize_resource_ids                                    *)
(***************************************************************************)
IsSpace(c) == c \in {" ", "\t"}

RECURSIVE lstrip(_)
lstrip(s) == IF s # <<>> /\ IsSpace(Head(s)) THEN lstrip(Tail(s)) ELSE s

RECURSIVE rstrip(_)
rstrip(s) ==
    IF s # <<>> /\ IsSpace(s[Len(s)]) THEN rstrip(SubSeq(s, 1, Len(s) - 1)) ELSE s

strip(s) == rstrip(lstrip(s))

\* Series.astype(str) on an object column: str(None) is the text "None".
astype_str(x) == IF x = NAid THEN <<"N", "o", "n", "e">> ELSE x

normalize_id(x) ==
    LET s == strip(astype_str(x))
    IN  IF s = <<"n", "a", "n">> THEN NAid ELSE s

normalize_resource_ids(df) ==
    [i \in 1..Len(df) |-> [df[i] EXCEPT !.resource_id = normalize_id(@)]]

(***************************************************************************)
(* analytics.py: enrich_billing                                            *)
(***************************************************************************)
\* pd.to_numeric(errors="coerce").fillna(0.0) on one cell
to_numeric(x) == IF x = NaN THEN 0 ELSE x[1]

coerce_numeric(df) ==
    [i \in 1..Len(df) |->
        [df[i] EXCEPT !.usage_qty = to_numeric(@),
                      !.unit_cost = to_numeric(@),
                      !.cost = to_numeric(@)]]

JoinRow(b, owner, env, tags_json) ==
    [invoice_month |-> b.invoice_month,
     resource_id   |-> b.resource_id,
     service       |-> b.service,
     resource_group |-> b.resource_group,
     usage_qty     |-> b.usage_qty,
     unit_cost     |-> b.unit_cost,
     cost          |-> b.cost,
     owner         |-> owner,
     env           |-> env,
     tags_json     |-> tags_json]

\* Mutant: how="inner", which drops the billing rows without metadata.
MergeRowInner(b, right) ==
    LET m == SelectSeq(right, LAMBDA r : r.resource_id = b.resource_id)
    IN  [i \in 1..Len(m) |-> JoinRow(b, m[i].owner, m[i].env, m[i].tags_json)]

\* how="left", on="resource_id": a left row is kept once per matching right
\* row, and once with missing values when no right row matches.  pandas
\* matches missing keys with each other.
MergeRow(b, right) ==
    LET m == SelectSeq(right, LAMBDA r : r.resource_id = b.resource_id)
    IN  IF m = <<>> THEN << JoinRow(b, NA, NA, NA) >>
        ELSE [i \in 1..Len(m) |-> JoinRow(b, m[i].owner, m[i].env, m[i].tags_json)]

merge_left(left, right) ==
    Concat([i \in 1..Len(left) |-> MergeRow(left[i], right)])

\* Mutant: the merge without validate=, which joins duplicates silently.
validate_none(right) == TRUE

\* validate="m:1": the right keys are unique, else MergeError
validate_m1(right) ==
    \A i, j \in 1..Len(right) :
        i # j => right[i].resource_id # right[j].resource_id

\* Mutant: the fillna("unassigned") step left out.
fillna_skipped(v, fill) == v

fillna(v, fill) == IF v = NA THEN fill ELSE v

Raised(e) == [status |-> "error", error |-> e]

Returned(v) == [status |-> "ok", value |-> v]

\* What pd.read_sql_query gives for a table that does not exist: it raises.
NoTable == << [error |-> "OperationalError"] >>

\* Mutant: a missing billing table read as an empty one.
load_tables_lenient(b0, r0) ==
    Returned([billing |-> IF b0 = NoTable THEN <<>> ELSE b0,
              resources |-> IF r0 = NoTable THEN <<>> ELSE r0])

\* b0 and r0 are the outcomes of the two SELECT * queries.  A failing
\* billing query is re-raised as RuntimeError, a failing resources query is
\* replaced by an empty frame with the metadata columns.
load_tables(b0, r0) ==
    IF b0 = NoTable THEN Raised("RuntimeError")
    ELSE Returned([billing |-> b0,
                   resources |-> IF r0 = NoTable THEN <<>> ELSE r0])

\* df["owner"].fillna("unassigned"), df["env"].fillna("unassigned")
fill_owner_env(merged) ==
    [i \in 1..Len(merged) |->
        [merged[i] EXCEPT !.owner = fillna(@, "unassigned"),
                          !.env = fillna(@, "unassigned")]]

\* b.merge(r, on="resource_id", how="left", validate="m:1") and the fills
merge_and_fill(b, r) ==
    IF ~validate_m1(r) THEN Raised("MergeError")
    ELSE Returned(fill_owner_env(merge_left(b, r)))

enrich_loaded(t) ==
    IF t.status = "error" THEN t
    ELSE merge_and_fill(coerce_numeric(normalize_resource_ids(t.value.billing)),
                        normalize_resource_ids(t.value.resources))

enrich_billing(b0, r0) == enrich_loaded(load_tables(b0, r0))

(***************************************************************************)
(* analytics.py: the per-month KPI queries                                 *)
(***************************************************************************)
\* Mutant: the month filter left out.
FilterMonthAll(df, month) == df

FilterMonth(df, month) == SelectSeq(df, LAMBDA r : r.invoice_month = month)

\* The elements of a set of strings as an ascending sequence (groupby
\* sorts the group keys).
RECURSIVE SortStrings(_)
SortStrings(S) ==
    IF S = {} THEN <<>>
    ELSE LET m == CHOOSE x \in S : \A y \in S : y = x \/ StrLess(x, y)
         IN  <<m>> \o SortStrings(S \ {m})

\* Mutant: the sort left out, the groups in the order of their keys.
SortCostSkipped(rows) == rows

\* A stable sort of (group, cost) rows by cost, descending.
RECURSIVE InsertDesc(_, _)
InsertDesc(sorted, row) ==
    IF sorted = <<>> THEN <<row>>
    ELSE IF Head(sorted).cost >= row.cost
         THEN <<Head(sorted)>> \o InsertDesc(Tail(sorted), row)
         ELSE <<row>> \o sorted

RECURSIVE SortCostDesc(_)
SortCostDesc(rows) ==
    IF rows = <<>> THEN <<>>
    ELSE InsertDesc(SortCostDesc(SubSeq(rows, 1, Len(rows) - 1)), rows[Len(rows)])

OwnerCosts(dfm, keys) ==
    [k \in 1..Len(keys) |->
        [owner |-> keys[k],
         cost  |-> SumCost(SelectSeq(dfm, LAMBDA r : r.owner = keys[k]))]]

GroupCostByOwner(dfm) ==
    OwnerCosts(dfm, SortStrings({dfm[i].owner : i \in 1..Len(dfm)}))

EnvCosts(dfm, keys) ==
    [k \in 1..Len(keys) |->
        [env  |-> keys[k],
         cost |-> SumCost(SelectSeq(dfm, LAMBDA r : r.env = keys[k]))]]

GroupCostByEnv(dfm) ==
    EnvCosts(dfm, SortStrings({dfm[i].env : i \in 1..Len(dfm)}))

\* The body of monthly_cost_by_owner after df = enrich_billing(): e is what
\* enrich_billing returned or raised.
cost_by_owner_of(e, month) ==
    IF e.status = "error" THEN e
    ELSE Returned(SortCostDesc(GroupCostByOwner(FilterMonth(e.value, month))))

monthly_cost_by_owner(b0, r0, month) ==
    cost_by_owner_of(enrich_billing(b0, r0), month)

cost_by_env_of(e, month) ==
    IF e.status = "error" THEN e
    ELSE Returned(SortCostDesc(GroupCostByEnv(FilterMonth(e.value, month))))

monthly_cost_by_env(b0, r0, month) ==
    cost_by_env_of(enrich_billing(b0, r0), month)

\* Mutant: assigned_cost taken over every month (df instead of dfm).
owner_coverage_unfiltered(b0, r0, month) ==
    LET e == enrich_billing(b0, r0)
    IN  IF e.status = "error" THEN e
        ELSE LET dfm == SelectSeq(e.value, LAMBDA r : r.invoice_month = month)
                 total_cost == SumCost(dfm)
                 assigned_cost ==
                     SumCost(SelectSeq(e.value, LAMBDA r : r.owner # "unassigned"))
             IN  Returned([month |-> month,
                           total_cost |-> total_cost,
                           assigned_cost |-> assigned_cost,
                           coverage_pct |->
                               IF total_cost > 0
                               THEN RoundDiv(assigned_cost * 10000, total_cost)
                               ELSE 0])

\* Mutant: coverage_pct rounded to two places.
coverage_row_round2(month, total_cost, assigned_cost) ==
    [month |-> month,
     total_cost |-> total_cost,
     assigned_cost |-> assigned_cost,
     coverage_pct |->
         IF total_cost > 0 THEN 100 * RoundDiv(assigned_cost * 100, total_cost) ELSE 0]

\* coverage_pct is in units of 1/10000 (round(x, 4)).
coverage_row(month, total_cost, assigned_cost) ==
    [month |-> month,
     total_cost |-> total_cost,
     assigned_cost |-> assigned_cost,
     coverage_pct |->
         IF total_cost > 0 THEN RoundDiv(assigned_cost * 10000, total_cost) ELSE 0]

coverage_of_month(dfm, month) ==
    coverage_row(month, SumCost(dfm),
                 SumCost(SelectSeq(dfm, LAMBDA r : r.owner # "unassigned")))

\* Mutant: the ratio taken without the total_cost > 0 guard.
coverage_of_unguarded(e, month) ==
    IF e.status = "error" THEN e
    ELSE IF SumCost(FilterMonth(e.value, month)) = 0 THEN Raised("ZeroDivisionError")
    ELSE Returned(coverage_of_month(FilterMonth(e.value, month), month))

coverage_of(e, month) ==
    IF e.status = "error" THEN e
    ELSE Returned(coverage_of_month(FilterMonth(e.value, month), month))

owner_coverage(b0, r0, month) == coverage_of(enrich_billing(b0, r0), month)

(***************************************************************************)
(* recommendations.py: the three detectors                                 *)
(***************************************************************************)
\* Rationals <<num, den>>, den > 0, kept in lowest terms.
RECURSIVE GCD(_, _)
GCD(a, b) == IF b = 0 THEN a ELSE GCD(b, a % b)

Abs(n) == IF n < 0 THEN 0 - n ELSE n

Rat(num, den) ==
    LET g == GCD(Abs(num), den)
    IN  IF g = 0 THEN <<num, den>> ELSE <<num \div g, den \div g>>

RatAdd(a, b) == Rat(a[1] * b[2] + b[1] * a[2], a[2] * b[2])

RatGeq(a, b) == a[1] * b[2] >= b[1] * a[2]

RatLess(a, b) == a[1] * b[2] < b[1] * a[2]

RECURSIVE RatSum(_)
RatSum(qs) == IF qs = <<>> THEN <<0, 1>> ELSE RatAdd(Head(qs), RatSum(Tail(qs)))

RECURSIVE SumOf(_)
SumOf(ns) == IF ns = <<>> THEN 0 ELSE Head(ns) + SumOf(Tail(ns))

\* Series.max() of the invoice months; NA on an empty frame.
MaxMonth(df) ==
    IF df = <<>> THEN NA
    ELSE CHOOSE m \in {df[i].invoice_month : i \in 1..Len(df)} :
            \A i \in 1..Len(df) : df[i].invoice_month = m \/ StrLess(df[i].invoice_month, m)

MaxUsage(df) ==
    CHOOSE u \in {df[i].usage_qty : i \in 1..Len(df)} :
        \A i \in 1..Len(df) : df[i].usage_qty <= u

\* The non-missing resource ids of a frame, ascending: groupby sorts its
\* keys and (dropna=True) drops the rows whose key is missing.
RECURSIVE SortIds(_)
SortIds(S) ==
    IF S = {} THEN <<>>
    ELSE LET m == CHOOSE x \in S : \A y \in S : y = x \/ IdLess(x, y)
         IN  <<m>> \o SortIds(S \ {m})

GroupIds(df) == SortIds({df[i].resource_id : i \in 1..Len(df)} \ {NAid})

RowsOf(df, rid) == SelectSeq(df, LAMBDA r : r.resource_id = rid)

Recommendation(type, res, estimated_savings, actions) ==
    [type |-> type, resources |-> res, estimated_savings |-> estimated_savings,
     actions |-> actions]

IdleActions ==
    <<"Review and terminate resources with 0% utilization",
      "Right-size resources with low utilization",
      "Implement auto-scaling where applicable",
      "Enable automated start/stop schedules for non-production resources">>

\* utilization = usage_qty / max(usage_qty): 0/0 is NaN when the maximum is
\* 0, and NaN < usage_threshold is False.
IsIdle(r, maxu, usage_threshold, cost_threshold) ==
    /\ maxu # 0
    /\ RatLess(<<r.usage_qty, maxu>>, usage_threshold)
    /\ r.cost > cost_threshold

\* Mutant: every month kept.
recent_rows_all(df) == df

\* recent_df = df[df["invoice_month"] == df["invoice_month"].max()]
recent_rows(df) == FilterMonth(df, MaxMonth(df))

\* recent_df["usage_qty"].max(); 0 stands for the NaN of an empty frame,
\* which selects no row either.
max_usage(recent_df) == IF recent_df = <<>> THEN 0 ELSE MaxUsage(recent_df)

\* One group of idle.groupby(["resource_id", "owner", "env"]).agg(cost: sum,
\* utilization: mean); the mean is kept as the sum and the count.
IdleGroup(g, rid) ==
    [resource_id |-> rid,
     owner |-> g[1].owner,
     env |-> g[1].env,
     cost |-> SumCost(g),
     usage |-> SumOf([i \in 1..Len(g) |-> g[i].usage_qty]),
     n |-> Len(g)]

IdleSummary(idle, keys) ==
    [k \in 1..Len(keys) |-> IdleGroup(RowsOf(idle, keys[k]), keys[k])]

\* utilization in an entry is in tenths of a percent (round(u * 100, 1)).
IdleEntry(row, maxu) ==
    [resource_id |-> row.resource_id,
     owner |-> row.owner,
     environment |-> row.env,
     current_monthly_cost |-> row.cost,
     utilization |-> RoundDiv(1000 * row.usage, row.n * maxu),
     potential_savings |-> RoundDiv(7 * row.cost, 10)]

IdleRecommendation(idle_summary, maxu) ==
    Recommendation("idle_resources",
                   [k \in 1..Len(idle_summary) |-> IdleEntry(idle_summary[k], maxu)],
                   Rat(7 * SumCost(idle_summary), 10),
                   IdleActions)

\* if idle.empty: return []
idle_report(idle, maxu) ==
    IF idle = <<>> THEN Returned(<<>>)
    ELSE Returned(<< IdleRecommendation(IdleSummary(idle, GroupIds(idle)), maxu) >>)

idle_select(recent_df, maxu, usage_threshold, cost_threshold) ==
    idle_report(SelectSeq(recent_df,
                    LAMBDA r : IsIdle(r, maxu, usage_threshold, cost_threshold)),
                maxu)

idle_of(e, usage_threshold, cost_threshold) ==
    IF e.status = "error" THEN e
    ELSE idle_select(recent_rows(e.value), max_usage(recent_rows(e.value)),
                     usage_threshold, cost_threshold)

\* cost_threshold is in cents.
find_idle_resources(b0, r0, usage_threshold, cost_threshold) ==
    idle_of(enrich_billing(b0, r0), usage_threshold, cost_threshold)

SpikeActions ==
    <<"Investigate recent configuration changes",
      "Review resource pricing tier changes",
      "Check for unexpected usage patterns",
      "Consider moving to reserved instances or savings plans",
      "Evaluate alternative service options">>

\* mean unit_cost of one (resource_id, invoice_month) group, as a rational
MeanUnitCost(df, rid, month) ==
    LET g == SelectSeq(df, LAMBDA r : r.resource_id = rid /\ r.invoice_month = month)
    IN  <<SumOf([i \in 1..Len(g) |-> g[i].unit_cost]), Len(g)>>

\* The rows of one resource after groupby/sort/shift(1)/dropna: one per
\* month of the resource but its first, with the mean unit cost of the
\* month before it in the resource's own months.  owner and env are group
\* keys too; enrichment makes them functions of resource_id.
ShiftedRow(g, month, cur, prev) ==
    [resource_id |-> g[1].resource_id,
     invoice_month |-> month,
     owner |-> g[1].owner,
     env |-> g[1].env,
     unit_cost |-> cur,
     prev_unit_cost |-> prev,
     pct_change |-> Rat(cur[1] * prev[2] - prev[1] * cur[2], prev[1] * cur[2])]

ShiftedMonths(g, ms) ==
    [k \in 1..(Len(ms) - 1) |->
        ShiftedRow(g, ms[k + 1],
                   MeanUnitCost(g, g[1].resource_id, ms[k + 1]),
                   MeanUnitCost(g, g[1].resource_id, ms[k]))]

ShiftedGroup(g) ==
    ShiftedMonths(g, SortStrings({g[i].invoice_month : i \in 1..Len(g)}))

ShiftedRows(df, rid) == ShiftedGroup(RowsOf(df, rid))

ShiftedAll(df, keys) == Concat([k \in 1..Len(keys) |-> ShiftedRows(df, keys[k])])

\* agg after "avoid divide by zero": pct_change is defined on these rows
UnitCostChanges(df) ==
    SelectSeq(ShiftedAll(df, GroupIds(df)), LAMBDA a : a.prev_unit_cost[1] # 0)

\* Mutant: the absolute change compared, as unit_cost_changes does.
IsSpikeAbs(a, threshold_pct) ==
    RatGeq(<<Abs(a.pct_change[1]), a.pct_change[2]>>, threshold_pct)

IsSpike(a, threshold_pct) == RatGeq(a.pct_change, threshold_pct)

\* spikes.merge(latest_costs[["resource_id", "cost"]], how="left"): one row
\* per latest-month row of the resource, cost missing when it has none
SpikeCostRows(a, latest_costs) ==
    LET m == RowsOf(latest_costs, a.resource_id)
    IN  IF m = <<>> THEN << [spike |-> a, cost |-> NaN] >>
        ELSE [i \in 1..Len(m) |-> [spike |-> a, cost |-> <<m[i].cost>>]]

\* latest_cost * pct_change * 0.5, in cents
SpikeSaving(cost, pct_change) == Rat(cost * pct_change[1], 2 * pct_change[2])

\* round(x, 2) of an amount in cents
Round2(q) == RoundDiv(q[1], q[2])

\* A missing cost gives missing (NaN) current_monthly_cost and
\* potential_savings; Series.sum() skips it.  unit_cost_increase is in
\* tenths of a percent.  invoice_month and pct_change are the columns of
\* the flagged row an entry is built from: the response does not carry
\* them, the properties read them.
SpikeEntry(a, c) ==
    [resource_id |-> a.resource_id,
     invoice_month |-> a.invoice_month,
     owner |-> a.owner,
     environment |-> a.env,
     pct_change |-> a.pct_change,
     unit_cost_increase |-> RoundDiv(1000 * a.pct_change[1], a.pct_change[2]),
     current_monthly_cost |-> c,
     potential_savings |->
         IF c = NaN THEN NaN ELSE << Round2(SpikeSaving(c[1], a.pct_change)) >>]

\* total_savings = (cost * pct_change * 0.5).sum(), over the known costs
SpikeTotal(known) ==
    RatSum([k \in 1..Len(known) |->
               SpikeSaving(known[k].cost[1], known[k].spike.pct_change)])

SpikeRecommendation(spikes) ==
    Recommendation("cost_spikes",
                   [k \in 1..Len(spikes) |-> SpikeEntry(spikes[k].spike, spikes[k].cost)],
                   SpikeTotal(SelectSeq(spikes, LAMBDA s : s.cost # NaN)),
                   SpikeActions)

\* spikes = spikes.merge(latest_costs, on="resource_id", how="left")
SpikeMerge(flagged, latest_costs) ==
    Concat([k \in 1..Len(flagged) |-> SpikeCostRows(flagged[k], latest_costs)])

\* if spikes.empty: return []
spike_report(flagged, latest_costs) ==
    IF flagged = <<>> THEN Returned(<<>>)
    ELSE Returned(<< SpikeRecommendation(SpikeMerge(flagged, latest_costs)) >>)

\* Mutant: the flagged rows joined to the costs of every month.
spike_select_all_months(df, threshold_pct) ==
    spike_report(SelectSeq(UnitCostChanges(df), LAMBDA a : IsSpike(a, threshold_pct)), df)

spike_select(df, threshold_pct) ==
    spike_report(SelectSeq(UnitCostChanges(df), LAMBDA a : IsSpike(a, threshold_pct)),
                 recent_rows(df))

spikes_of(e, threshold_pct) ==
    IF e.status = "error" THEN e ELSE spike_select(e.value, threshold_pct)

find_cost_spikes(b0, r0, threshold_pct) ==
    spikes_of(enrich_billing(b0, r0), threshold_pct)

TaggingActions ==
    <<"Implement mandatory tagging policy",
      "Add missing owner tags",
      "Add missing environment tags",
      "Set up automated tag compliance checks",
      "Create tag inheritance rules where applicable">>

\* Mutant: only the owner tested.
IsUntaggedOwner(r) == r.owner = "unassigned"

IsUntagged(r) == r.owner = "unassigned" \/ r.env = "unassigned"

TagStatus(g, col) ==
    IF \A i \in 1..Len(g) : g[i][col] = "unassigned" THEN "missing" ELSE "partial"

UntaggedGroup(g, rid) ==
    [resource_id |-> rid,
     cost |-> SumCost(g),
     owner |-> TagStatus(g, "owner"),
     env |-> TagStatus(g, "env")]

UntaggedSummary(untagged, keys) ==
    [k \in 1..Len(keys) |-> UntaggedGroup(RowsOf(untagged, keys[k]), keys[k])]

TaggingEntry(row) ==
    [resource_id |-> row.resource_id,
     owner_tag |-> row.owner,
     environment_tag |-> row.env,
     monthly_unattributed_cost |-> row.cost,
     potential_savings |-> RoundDiv(2 * row.cost, 10)]

TaggingRecommendation(untagged_summary) ==
    Recommendation("tagging_gaps",
                   [k \in 1..Len(untagged_summary) |-> TaggingEntry(untagged_summary[k])],
                   Rat(2 * SumCost(untagged_summary), 10),
                   TaggingActions)

\* if untagged.empty: return []
tagging_report(untagged) ==
    IF untagged = <<>> THEN Returned(<<>>)
    ELSE Returned(<< TaggingRecommendation(
                         UntaggedSummary(untagged, GroupIds(untagged))) >>)

gaps_of(e) ==
    IF e.status = "error" THEN e
    ELSE tagging_report(SelectSeq(recent_rows(e.value), IsUntagged))

find_tagging_gaps(b0, r0) == gaps_of(enrich_billing(b0, r0))

(***************************************************************************)
(* recommendations.py: Recommendation.to_dict, get_all_recommendations     *)
(***************************************************************************)
to_dict(r) ==
    [type |-> r.type,
     resources |-> r.resources,
     estimated_monthly_savings |-> Round2(r.estimated_savings),
     recommended_actions |-> r.actions]

\* the parameter defaults of the three detectors
DefaultUsageThreshold == <<1, 10>>

DefaultCostThreshold == 10000

DefaultSpikeThreshold == <<3, 10>>

\* Mutant: the total summed from the rounded estimated_monthly_savings.
get_all_recommendations_rounded(b0, r0) ==
    LET idle == find_idle_resources(b0, r0, DefaultUsageThreshold, DefaultCostThreshold)
        spikes == find_cost_spikes(b0, r0, DefaultSpikeThreshold)
        gaps == find_tagging_gaps(b0, r0)
    IN  IF idle.status = "error" THEN idle
        ELSE IF spikes.status = "error" THEN spikes
        ELSE IF gaps.status = "error" THEN gaps
        ELSE LET all_recs == idle.value \o spikes.value \o gaps.value
             IN  Returned([total_estimated_monthly_savings |->
                               SumOf([k \in 1..Len(all_recs) |->
                                         Round2(all_recs[k].estimated_savings)]),
                           recommendations |->
                               [k \in 1..Len(all_recs) |-> to_dict(all_recs[k])]])

\* total_savings = sum(r.estimated_savings for r in all_recs), rounded once
report_of(all_recs) ==
    [total_estimated_monthly_savings |->
         Round2(RatSum([k \in 1..Len(all_recs) |-> all_recs[k].estimated_savings])),
     recommendations |-> [k \in 1..Len(all_recs) |-> to_dict(all_recs[k])]]

\* The detectors run in this order; the first that raises ends the call.
collect(idle, spikes, gaps) ==
    IF idle.status = "error" THEN idle
    ELSE IF spikes.status = "error" THEN spikes
    ELSE IF gaps.status = "error" THEN gaps
    ELSE Returned(report_of(idle.value \o spikes.value \o gaps.value))

get_all_recommendations(b0, r0) ==
    collect(find_idle_resources(b0, r0, DefaultUsageThreshold, DefaultCostThreshold),
            find_cost_spikes(b0, r0, DefaultSpikeThreshold),
            find_tagging_gaps(b0, r0))

(***************************************************************************)
(* main.py: GET /recommendations.  The three query parameters are          *)
(* declared and never passed on.  A response holding NaN cannot be         *)
(* rendered as JSON (allow_nan=False) and ends as a server error too.      *)
(***************************************************************************)
HasNaN(report) ==
    \E k \in 1..Len(report.recommendations) :
        /\ report.recommendations[k].type = "cost_spikes"
        /\ \E j \in 1..Len(report.recommendations[k].resources) :
              report.recommendations[k].resources[j].current_monthly_cost = NaN

respond(r) ==
    IF r.status = "error" THEN [status |-> "error", code |-> 500, error |-> r.error]
    ELSE IF HasNaN(r.value)
         THEN [status |-> "error", code |-> 500, error |-> "ValueError"]
         ELSE [status |-> "ok", code |-> 200, value |-> r.value]

get_recommendations(b0, r0, usage_threshold, cost_threshold, spike_threshold) ==
    respond(get_all_recommendations(b0, r0))

(***************************************************************************)
(* The store.  Rows reach the billing table through etl.ingest_file        *)
(* (to_sql, append) and the resources table through seed_resources (an     *)
(* insert); the numeric columns were coerced at ingestion, so a cell is a  *)
(* number or NULL.                                                         *)
(***************************************************************************)
\* A billing row with its service and resource_group columns.
BRowOf(month, rid, service, resource_group, usage_qty, unit_cost, cost) ==
    [invoice_month |-> month, resource_id |-> rid, service |-> service,
     resource_group |-> resource_group, usage_qty |-> usage_qty,
     unit_cost |-> unit_cost, cost |-> cost]

\* A row of the service "vm" in the resource group "rg1".
BRow(month, rid, usage_qty, unit_cost, cost) ==
    BRowOf(month, rid, "vm", "rg1", usage_qty, unit_cost, cost)

RRow(rid, owner, env) ==
    [resource_id |-> rid, owner |-> owner, env |-> env, tags_json |-> "{}"]

MaxBilling == 2

MaxResources == 2

\* Input domains of the KPI specification: ids that differ by whitespace,
\* the text "nan", a NULL cost.
KpiMonths == {"2025-07", "2025-08"}

KpiBillingRows ==
    {BRow(m, x[1], <<1>>, x[2], x[2]) :
        m \in KpiMonths,
        x \in {<< <<"r", "1">>, <<1000>> >>,
               << <<" ", "r", "1">>, <<250>> >>,
               << <<"n", "a", "n">>, NaN >>}}

KpiResourceRows ==
    {RRow(<<"r", "1">>, "team1", "prod"),
     RRow(<<"r", "1", "\t">>, NA, "dev"),
     RRow(<<"n", "a", "n">>, "team2", NA)}

\* data/cache/<month>/{owner.csv, env.csv, coverage.json}, none written yet
EmptySnapshot == [owner |-> <<>>, env |-> <<>>, coverage |-> <<>>]

EmptyCache == [m \in KpiMonths |-> EmptySnapshot]

\* no request in flight
NoRequests == <<>>

\* After models.create_tables: both tables exist and are empty.
Init ==
    /\ billing = <<>>
    /\ resources = <<>>
    /\ result = [op |-> "none"]
    /\ dropped = {}
    /\ cache = EmptyCache
    /\ reqs = NoRequests

\* pd.read_sql_query("SELECT * FROM billing", engine) and the same on
\* resources, on the current database
read_billing == IF "billing" \in dropped THEN NoTable ELSE billing

read_resources == IF "resources" \in dropped THEN NoTable ELSE resources

\* df.to_sql("billing", engine, if_exists="append") creates the table when
\* it does not exist.
IngestBilling(row) ==
    /\ Len(billing) < MaxBilling
    /\ billing' = Append(billing, row)
    /\ dropped' = dropped \ {"billing"}
    /\ result' = [op |-> "ingest"]
    /\ UNCHANGED <<resources, cache, reqs>>

\* The insert needs the resources table.
SeedResource(row) ==
    /\ "resources" \notin dropped
    /\ Len(resources) < MaxResources
    /\ resources' = Append(resources, row)
    /\ result' = [op |-> "seed"]
    /\ UNCHANGED <<billing, dropped, cache, reqs>>

EnrichBilling ==
    /\ result' = [op |-> "enrich_billing", out |-> enrich_billing(read_billing, read_resources)]
    /\ UNCHANGED <<billing, resources, dropped, cache, reqs>>

MonthlyCostByOwner(month) ==
    /\ result' = [op |-> "monthly_cost_by_owner", month |-> month,
                  out |-> monthly_cost_by_owner(read_billing, read_resources, month)]
    /\ UNCHANGED <<billing, resources, dropped, cache, reqs>>

MonthlyCostByEnv(month) ==
    /\ result' = [op |-> "monthly_cost_by_env", month |-> month,
                  out |-> monthly_cost_by_env(read_billing, read_resources, month)]
    /\ UNCHANGED <<billing, resources, dropped, cache, reqs>>

OwnerCoverage(month) ==
    /\ result' = [op |-> "owner_coverage", month |-> month,
                  out |-> owner_coverage(read_billing, read_resources, month)]
    /\ UNCHANGED <<billing, resources, dropped, cache, reqs>>

FindIdleResources(usage_threshold, cost_threshold) ==
    /\ result' = [op |-> "find_idle_resources",
                  usage_threshold |-> usage_threshold,
                  cost_threshold |-> cost_threshold,
                  out |-> find_idle_resources(read_billing, read_resources,
                                              usage_threshold, cost_threshold)]
    /\ UNCHANGED <<billing, resources, dropped, cache, reqs>>

FindCostSpikes(threshold_pct) ==
    /\ result' = [op |-> "find_cost_spikes", threshold_pct |-> threshold_pct,
                  out |-> find_cost_spikes(read_billing, read_resources, threshold_pct)]
    /\ UNCHANGED <<billing, resources, dropped, cache, reqs>>

FindTaggingGaps ==
    /\ result' = [op |-> "find_tagging_gaps",
                  out |-> find_tagging_gaps(read_billing, read_resources)]
    /\ UNCHANGED <<billing, resources, dropped, cache, reqs>>

GetAllRecommendations ==
    /\ result' = [op |-> "get_all_recommendations",
                  out |-> get_all_recommendations(read_billing, read_resources)]
    /\ UNCHANGED <<billing, resources, dropped, cache, reqs>>

GetRecommendations(usage_threshold, cost_threshold, spike_threshold) ==
    /\ result' = [op |-> "get_recommendations",
                  usage_threshold |-> usage_threshold,
                  cost_threshold |-> cost_threshold,
                  spike_threshold |-> spike_threshold,
                  out |-> get_recommendations(read_billing, read_resources, usage_threshold,
                                              cost_threshold, spike_threshold)]
    /\ UNCHANGED <<billing, resources, dropped, cache, reqs>>

\* The KPI specification: every operation, the detectors at their defaults.
Next ==
    \/ \E row \in KpiBillingRows : IngestBilling(row)
    \/ \E row \in KpiResourceRows : SeedResource(row)
    \/ EnrichBilling
    \/ \E month \in KpiMonths : MonthlyCostByOwner(month)
    \/ \E month \in KpiMonths : MonthlyCostByEnv(month)
    \/ \E month \in KpiMonths : OwnerCoverage(month)
    \/ FindIdleResources(DefaultUsageThreshold, DefaultCostThreshold)
    \/ FindCostSpikes(DefaultSpikeThreshold)
    \/ FindTaggingGaps
    \/ GetAllRecommendations
    \/ GetRecommendations(DefaultUsageThreshold, DefaultCostThreshold,
                          DefaultSpikeThreshold)

Spec == Init /\ [][Next]_vars

(***************************************************************************)
(* The recommendation specification: the detectors and the endpoint over   *)
(* rows that vary usage, unit cost and cost, with several thresholds.      *)
(***************************************************************************)
\* (usage_qty, unit_cost, cost in cents)
RecMeasures == {<<0, 10, 10002>>, <<100, 40, 250>>, <<8, 13, 20000>>}

RecBillingRows ==
    {BRow(m, <<"r", "1">>, <<x[1]>>, <<x[2]>>, <<x[3]>>) :
        m \in {"2025-07", "2025-08"}, x \in RecMeasures}
    \cup {BRow("2025-09", <<"n", "a", "n">>, <<0>>, <<10>>, <<10002>>)}

RecResourceRows ==
    {RRow(<<"r", "1">>, "team1", "prod"), RRow(<<"r", "1">>, "team1", NA)}

UsageThresholds == {<<1, 20>>, <<1, 10>>}

CostThresholds == {5000, 10000}

SpikeThresholds == {<<-1, 2>>, <<3, 10>>, <<3, 1>>}

\* (usage_threshold, cost_threshold, spike_threshold) of a request
RequestThresholds ==
    {<<DefaultUsageThreshold, DefaultCostThreshold, DefaultSpikeThreshold>>,
     << <<1, 20>>, 5000, <<1, 2>> >>}

NextRec ==
    \/ \E row \in RecBillingRows : IngestBilling(row)
    \/ \E row \in RecResourceRows : SeedResource(row)
    \/ \E u \in UsageThresholds, c \in CostThresholds : FindIdleResources(u, c)
    \/ \E t \in SpikeThresholds : FindCostSpikes(t)
    \/ FindTaggingGaps
    \/ GetAllRecommendations
    \/ \E q \in RequestThresholds : GetRecommendations(q[1], q[2], q[3])

SpecRec == Init /\ [][NextRec]_vars

(***************************************************************************)
(* The report request, detector by detector.  get_all_recommendations      *)
(* calls the three detectors in turn and each of them calls                *)
(* enrich_billing, which queries the database again: writes can land       *)
(* between two detectors of one request.  reqs holds the request; its pc   *)
(* names the detector it calls next.                                       *)
(***************************************************************************)
\* Mutant: a failing detector is skipped and the report built from the rest.
DetectorIsolated(req, r, next) ==
    IF next = "return"
    THEN /\ reqs' = NoRequests
         /\ result' = [op |-> "GET /recommendations",
                       all_recs |-> req.all_recs,
                       out |-> respond(Returned(report_of(
                                  IF r.status = "error" THEN req.all_recs
                                  ELSE req.all_recs \o r.value)))]
    ELSE /\ reqs' = << [req EXCEPT !.pc = next,
                                   !.all_recs = IF r.status = "error" THEN @
                                                ELSE @ \o r.value] >>
         /\ UNCHANGED result

\* One all_recs.extend(detector()) of the request req, r being what the
\* detector returned or raised.  An exception leaves
\* get_all_recommendations and the handler answers 500; after the third
\* detector the report is built and returned.  all_recs in the result is
\* what the request had collected when it ended.
DetectorReturns(req, r, next) ==
    IF r.status = "error"
    THEN /\ reqs' = NoRequests
         /\ result' = [op |-> "GET /recommendations",
                       all_recs |-> req.all_recs,
                       out |-> respond(r)]
    ELSE IF next = "return"
    THEN /\ reqs' = NoRequests
         /\ result' = [op |-> "GET /recommendations",
                       all_recs |-> req.all_recs \o r.value,
                       out |-> respond(Returned(report_of(req.all_recs \o r.value)))]
    ELSE /\ reqs' = << [req EXCEPT !.pc = next, !.all_recs = @ \o r.value] >>
         /\ UNCHANGED result

BeginRecommendations ==
    /\ reqs = NoRequests
    /\ reqs' = << [pc |-> "find_idle_resources", all_recs |-> <<>>] >>
    /\ UNCHANGED <<billing, resources, result, dropped, cache>>

CallFindIdleResources ==
    /\ reqs # NoRequests
    /\ reqs[1].pc = "find_idle_resources"
    /\ DetectorReturns(reqs[1],
                       find_idle_resources(read_billing, read_resources,
                                           DefaultUsageThreshold, DefaultCostThreshold),
                       "find_cost_spikes")
    /\ UNCHANGED <<billing, resources, dropped, cache>>

CallFindCostSpikes ==
    /\ reqs # NoRequests
    /\ reqs[1].pc = "find_cost_spikes"
    /\ DetectorReturns(reqs[1],
                       find_cost_spikes(read_billing, read_resources,
                                        DefaultSpikeThreshold),
                       "find_tagging_gaps")
    /\ UNCHANGED <<billing, resources, dropped, cache>>

CallFindTaggingGaps ==
    /\ reqs # NoRequests
    /\ reqs[1].pc = "find_tagging_gaps"
    /\ DetectorReturns(reqs[1], find_tagging_gaps(read_billing, read_resources),
                       "return")
    /\ UNCHANGED <<billing, resources, dropped, cache>>

NextReport ==
    \/ \E row \in RecBillingRows : IngestBilling(row)
    \/ \E row \in RecResourceRows : SeedResource(row)
    \/ BeginRecommendations
    \/ CallFindIdleResources
    \/ CallFindCostSpikes
    \/ CallFindTaggingGaps

SpecReport == Init /\ [][NextReport]_vars

(***************************************************************************)
(* A client that sends the same request twice in a row.  Requests are      *)
(* records [op, month]; reqs holds the pending second call with the        *)
(* answer to the first.                                                    *)
(***************************************************************************)
Requests ==
    {[op |-> o, month |-> m] :
        o \in {"monthly_cost_by_owner", "monthly_cost_by_env", "owner_coverage"},
        m \in KpiMonths}
    \cup {[op |-> o, month |-> NA] :
            o \in {"find_idle_resources", "find_cost_spikes", "find_tagging_gaps",
                   "get_all_recommendations", "get_recommendations"}}

\* the function or handler the request names, on the tables b0 and r0
call(q, b0, r0) ==
    CASE q.op = "monthly_cost_by_owner" -> monthly_cost_by_owner(b0, r0, q.month)
      [] q.op = "monthly_cost_by_env" -> monthly_cost_by_env(b0, r0, q.month)
      [] q.op = "owner_coverage" -> owner_coverage(b0, r0, q.month)
      [] q.op = "find_idle_resources" ->
            find_idle_resources(b0, r0, DefaultUsageThreshold, DefaultCostThreshold)
      [] q.op = "find_cost_spikes" -> find_cost_spikes(b0, r0, DefaultSpikeThreshold)
      [] q.op = "find_tagging_gaps" -> find_tagging_gaps(b0, r0)
      [] q.op = "get_all_recommendations" -> get_all_recommendations(b0, r0)
      [] q.op = "get_recommendations" ->
            get_recommendations(b0, r0, DefaultUsageThreshold, DefaultCostThreshold,
                                DefaultSpikeThreshold)

FirstCall(q) ==
    /\ reqs = NoRequests
    /\ reqs' = << [request |-> q, first |-> call(q, read_billing, read_resources)] >>
    /\ result' = [op |-> "first call", request |-> q]
    /\ UNCHANGED <<billing, resources, dropped, cache>>

\* Mutant: the second call answers from a detector that drained its input.
SecondCallDrained ==
    /\ reqs # NoRequests
    /\ result' = [op |-> "second call", request |-> reqs[1].request,
                  first |-> reqs[1].first,
                  out |-> call(reqs[1].request, <<>>, read_resources)]
    /\ reqs' = NoRequests
    /\ UNCHANGED <<billing, resources, dropped, cache>>

SecondCall ==
    /\ reqs # NoRequests
    /\ result' = [op |-> "second call", request |-> reqs[1].request,
                  first |-> reqs[1].first,
                  out |-> call(reqs[1].request, read_billing, read_resources)]
    /\ reqs' = NoRequests
    /\ UNCHANGED <<billing, resources, dropped, cache>>

\* No write lands between the two calls.
NextTwice ==
    \/ reqs = NoRequests /\ \E row \in KpiBillingRows : IngestBilling(row)
    \/ reqs = NoRequests /\ \E row \in KpiResourceRows : SeedResource(row)
    \/ \E q \in Requests : FirstCall(q)
    \/ SecondCall

SpecTwice == Init /\ [][NextTwice]_vars

(***************************************************************************)
(* The KPI snapshot cache: analytics.cache_month_results and               *)
(* load_month_results, and GET /kpi of main.py.  A snapshot is the three   *)
(* files owner.csv, env.csv and coverage.json of data/cache/<month>.       *)
(***************************************************************************)
\* DataFrame.to_csv(path, index=False): the header line, then one line of
\* fields per row.  A float is written by its repr, which reads back as the
\* same float: the cost field is the number.
csv_line(row, columns) == <<row[columns[1]], row[columns[2]]>>

to_csv(df, columns) ==
    [header |-> columns, lines |-> [i \in 1..Len(df) |-> csv_line(df[i], columns)]]

\* The file as open(path, "w") leaves it before anything is written.
EmptyFile == [header |-> <<>>, lines |-> <<>>]

\* The fields pd.read_csv takes for a missing value (its default
\* na_values), among the strings of the model.
NaFields == {"NA", NA}

parse_field(t) == IF t \in NaFields THEN NA ELSE t

\* pd.read_csv of owner.csv and of env.csv; no header line: EmptyDataError
read_owner_csv(f) ==
    IF f.header = <<>> THEN Raised("EmptyDataError")
    ELSE Returned([i \in 1..Len(f.lines) |->
                      [owner |-> parse_field(f.lines[i][1]), cost |-> f.lines[i][2]]])

read_env_csv(f) ==
    IF f.header = <<>> THEN Raised("EmptyDataError")
    ELSE Returned([i \in 1..Len(f.lines) |->
                      [env |-> parse_field(f.lines[i][1]), cost |-> f.lines[i][2]]])

\* json.dump(coverage, f) and json.load(f); an empty file: JSONDecodeError
json_dump(coverage) == [header |-> <<"json">>, lines |-> <<coverage>>]

json_load(f) ==
    IF f.header = <<>> THEN Raised("JSONDecodeError") ELSE Returned(f.lines[1])

\* load_month_results returns None
None == [status |-> "none"]

loaded(owner_df, env_df, coverage) ==
    IF owner_df.status = "error" THEN owner_df
    ELSE IF env_df.status = "error" THEN env_df
    ELSE IF coverage.status = "error" THEN coverage
    ELSE Returned([owner_df |-> owner_df.value, env_df |-> env_df.value,
                   coverage |-> coverage.value])

\* snap is the directory of the month
load_month_results(snap) ==
    IF snap.owner # <<>> /\ snap.env # <<>> /\ snap.coverage # <<>>
    THEN loaded(read_owner_csv(snap.owner[1]), read_env_csv(snap.env[1]),
                json_load(snap.coverage[1]))
    ELSE None

\* the three files cache_month_results saves
snapshot_of(owner_df, env_df, coverage) ==
    [owner |-> << to_csv(owner_df, <<"owner", "cost">>) >>,
     env |-> << to_csv(env_df, <<"env", "cost">>) >>,
     coverage |-> << json_dump(coverage) >>]

\* cache_month_results computes the three results, then saves them; an
\* exception of the computation leaves the directory as it was.
saved(owner_df, env_df, coverage, snap) ==
    IF owner_df.status = "error" THEN [status |-> "error", error |-> owner_df.error,
                                       snapshot |-> snap]
    ELSE IF env_df.status = "error" THEN [status |-> "error", error |-> env_df.error,
                                          snapshot |-> snap]
    ELSE IF coverage.status = "error" THEN [status |-> "error", error |-> coverage.error,
                                            snapshot |-> snap]
    ELSE [status |-> "ok",
          snapshot |-> snapshot_of(owner_df.value, env_df.value, coverage.value)]

cache_month_results(b0, r0, month, snap) ==
    saved(monthly_cost_by_owner(b0, r0, month), monthly_cost_by_env(b0, r0, month),
          owner_coverage(b0, r0, month), snap)

\* An exception that leaves a handler is answered with HTTP 500.
server_error(r) == [status |-> "error", code |-> 500, error |-> r.error]

\* The response of GET /kpi.  to_dict(orient="records") of a frame read
\* from the cache holds NaN where a field was read as missing, and the
\* response cannot be rendered as JSON (allow_nan=False).
kpi_response(month, owner_df, env_df, coverage) ==
    IF \/ \E i \in 1..Len(owner_df) : owner_df[i].owner = NA
       \/ \E i \in 1..Len(env_df) : env_df[i].env = NA
    THEN [status |-> "error", code |-> 500, error |-> "ValueError"]
    ELSE [status |-> "ok", code |-> 200,
          value |-> [month |-> month, cost_by_owner |-> owner_df,
                     cost_by_env |-> env_df, owner_coverage |-> coverage]]

\* the else branch of get_kpis: compute, cache_month_results, respond
kpis_computed(month, owner_df, env_df, coverage, w) ==
    IF owner_df.status = "error"
    THEN [out |-> server_error(owner_df), snapshot |-> w.snapshot]
    ELSE IF env_df.status = "error"
    THEN [out |-> server_error(env_df), snapshot |-> w.snapshot]
    ELSE IF coverage.status = "error"
    THEN [out |-> server_error(coverage), snapshot |-> w.snapshot]
    ELSE IF w.status = "error"
    THEN [out |-> server_error(w), snapshot |-> w.snapshot]
    ELSE [out |-> kpi_response(month, owner_df.value, env_df.value, coverage.value),
          snapshot |-> w.snapshot]

kpis_fresh(b0, r0, month, snap) ==
    kpis_computed(month, monthly_cost_by_owner(b0, r0, month),
                  monthly_cost_by_env(b0, r0, month), owner_coverage(b0, r0, month),
                  cache_month_results(b0, r0, month, snap))

\* the if branch: cached is a non-empty tuple
kpis_cached(month, cached, snap) ==
    IF cached.status = "error" THEN [out |-> server_error(cached), snapshot |-> snap]
    ELSE [out |-> kpi_response(month, cached.value.owner_df, cached.value.env_df,
                               cached.value.coverage),
          snapshot |-> snap]

\* Mutant: the cache is never read.
kpis_uncached(cached, fresh, month, snap) == fresh

kpis_choose(cached, fresh, month, snap) ==
    IF cached.status = "none" THEN fresh ELSE kpis_cached(month, cached, snap)

\* GET /kpi run without interruption: out is the response, snapshot the
\* directory of the month after it.
get_kpis(b0, r0, snap, month, refresh) ==
    kpis_choose(IF refresh THEN None ELSE load_month_results(snap),
                kpis_fresh(b0, r0, month, snap), month, snap)

\* Mutant: one cache directory shared by all months.
GetKpisResultShared(month, refresh, g) ==
    /\ result' = [op |-> "get_kpis", month |-> month, refresh |-> refresh,
                  snapshot0 |-> cache[month], out |-> g.out]
    /\ cache' = [m \in KpiMonths |-> g.snapshot]

\* snapshot0 is the directory of the month as the request found it.
GetKpisResult(month, refresh, g) ==
    /\ result' = [op |-> "get_kpis", month |-> month, refresh |-> refresh,
                  snapshot0 |-> cache[month], out |-> g.out]
    /\ cache' = [cache EXCEPT ![month] = g.snapshot]

GetKpis(month, refresh) ==
    /\ GetKpisResult(month, refresh,
                     get_kpis(read_billing, read_resources, cache[month], month, refresh))
    /\ UNCHANGED <<billing, resources, dropped, reqs>>

\* The cache specification: the requests of the API over a store in which
\* an owner is called "NA".
CacheBillingRows ==
    {BRow("2025-07", <<"r", "1">>, <<1>>, <<1000>>, <<1000>>),
     BRow("2025-08", <<"r", "1">>, <<1>>, <<250>>, <<250>>)}

CacheResourceRows ==
    {RRow(<<"r", "1">>, "NA", "prod"), RRow(<<"r", "1", "\t">>, "team1", NA)}

NextCache ==
    \/ \E row \in CacheBillingRows : IngestBilling(row)
    \/ \E row \in CacheResourceRows : SeedResource(row)
    \/ \E month \in KpiMonths, refresh \in BOOLEAN : GetKpis(month, refresh)
    \/ EnrichBilling
    \/ \E month \in KpiMonths : MonthlyCostByOwner(month)
    \/ \E month \in KpiMonths : MonthlyCostByEnv(month)
    \/ \E month \in KpiMonths : OwnerCoverage(month)
    \/ FindIdleResources(DefaultUsageThreshold, DefaultCostThreshold)
    \/ FindCostSpikes(DefaultSpikeThreshold)
    \/ FindTaggingGaps
    \/ GetAllRecommendations

SpecCache == Init /\ [][NextCache]_vars

(***************************************************************************)
(* GET /kpi, operation by operation.  The handler runs in a thread of the  *)
(* server's pool, so several requests are in flight at once; each file     *)
(* test, file read, query of the tables, open(path, "w") and write of one  *)
(* request is a step of its own.  reqs maps each client to its request:    *)
(* pc is the phase of the handler, part the file or KPI it is at, got the  *)
(* values of the response, w the values cache_month_results computed.      *)
(***************************************************************************)
Clients == {"c1", "c2"}

Idle == [pc |-> "idle"]

NextPart(part) == IF part = "owner" THEN "env" ELSE "coverage"

\* Mutant: the coverage is computed over every month of the table.
kpi_query_unfiltered(part, b0, r0, month) ==
    CASE part = "owner" -> monthly_cost_by_owner(b0, r0, month)
      [] part = "env" -> monthly_cost_by_env(b0, r0, month)
      [] part = "coverage" -> owner_coverage_unfiltered(b0, r0, month)

\* monthly_cost_by_owner, monthly_cost_by_env or owner_coverage
kpi_query(part, b0, r0, month) ==
    CASE part = "owner" -> monthly_cost_by_owner(b0, r0, month)
      [] part = "env" -> monthly_cost_by_env(b0, r0, month)
      [] part = "coverage" -> owner_coverage(b0, r0, month)

read_file(part, f) ==
    CASE part = "owner" -> read_owner_csv(f)
      [] part = "env" -> read_env_csv(f)
      [] part = "coverage" -> json_load(f)

write_file(part, v) ==
    CASE part = "owner" -> to_csv(v, <<"owner", "cost">>)
      [] part = "env" -> to_csv(v, <<"env", "cost">>)
      [] part = "coverage" -> json_dump(v)

\* the request of client c ends with the response out
KpiReturn(c, out) ==
    /\ reqs' = [reqs EXCEPT ![c] = Idle]
    /\ result' = [op |-> "GET /kpi", client |-> c, month |-> reqs[c].month,
                  refresh |-> reqs[c].refresh, out |-> out]

KpiGoto(c, pc, part) ==
    /\ reqs' = [reqs EXCEPT ![c].pc = pc, ![c].part = part]
    /\ UNCHANGED result

\* rows0 is the size of the two tables when the handler is entered; both
\* only grow, so a request whose rows0 still holds met no write.
KpiBegin(c, month, refresh) ==
    /\ reqs[c].pc = "idle"
    /\ reqs' = [reqs EXCEPT ![c] =
                   [pc |-> IF refresh THEN "compute" ELSE "exists", part |-> "owner",
                    month |-> month, refresh |-> refresh,
                    got |-> EmptySnapshot, w |-> EmptySnapshot,
                    rows0 |-> <<Len(billing), Len(resources)>>]]
    /\ UNCHANGED <<billing, resources, result, dropped, cache>>

\* owner_file.exists() and env_file.exists() and cov_file.exists()
KpiExists(c) ==
    /\ reqs[c].pc = "exists"
    /\ IF cache[reqs[c].month][reqs[c].part] = <<>> THEN KpiGoto(c, "compute", "owner")
       ELSE IF reqs[c].part = "coverage" THEN KpiGoto(c, "read", "owner")
       ELSE KpiGoto(c, "exists", NextPart(reqs[c].part))
    /\ UNCHANGED <<billing, resources, dropped, cache>>

KpiReadDone(c, v) ==
    IF v.status = "error" THEN KpiReturn(c, server_error(v))
    ELSE IF reqs[c].part = "coverage"
    THEN KpiReturn(c, kpi_response(reqs[c].month, reqs[c].got.owner[1],
                                   reqs[c].got.env[1], v.value))
    ELSE /\ reqs' = [reqs EXCEPT ![c].got[reqs[c].part] = <<v.value>>,
                                 ![c].part = NextPart(@)]
         /\ UNCHANGED result

\* pd.read_csv(owner_file), pd.read_csv(env_file), json.load(f)
KpiRead(c) ==
    /\ reqs[c].pc = "read"
    /\ KpiReadDone(c, read_file(reqs[c].part, cache[reqs[c].month][reqs[c].part][1]))
    /\ UNCHANGED <<billing, resources, dropped, cache>>

KpiComputeDone(c, v, var, then) ==
    IF v.status = "error" THEN KpiReturn(c, server_error(v))
    ELSE /\ reqs' = [reqs EXCEPT ![c][var][reqs[c].part] = <<v.value>>,
                                 ![c].pc = IF reqs[c].part = "coverage" THEN then ELSE @,
                                 ![c].part = IF @ = "coverage" THEN "owner"
                                             ELSE NextPart(@)]
         /\ UNCHANGED result

\* the three calls of get_kpis (pc "compute"), then the three calls of
\* cache_month_results (pc "recompute"): each queries the tables
KpiCompute(c) ==
    /\ reqs[c].pc \in {"compute", "recompute"}
    /\ KpiComputeDone(c, kpi_query(reqs[c].part, read_billing, read_resources,
                                   reqs[c].month),
                      IF reqs[c].pc = "compute" THEN "got" ELSE "w",
                      IF reqs[c].pc = "compute" THEN "recompute" ELSE "open")
    /\ UNCHANGED <<billing, resources, dropped, cache>>

\* open(path, "w") of to_csv and of the coverage file: the file exists and
\* is empty
KpiOpen(c) ==
    /\ reqs[c].pc = "open"
    /\ cache' = [cache EXCEPT ![reqs[c].month][reqs[c].part] = <<EmptyFile>>]
    /\ KpiGoto(c, "write", reqs[c].part)
    /\ UNCHANGED <<billing, resources, dropped>>

\* the content reaches the file; after coverage.json the handler returns
KpiWrite(c) ==
    /\ reqs[c].pc = "write"
    /\ cache' = [cache EXCEPT ![reqs[c].month][reqs[c].part] =
                    << write_file(reqs[c].part, reqs[c].w[reqs[c].part][1]) >>]
    /\ IF reqs[c].part = "coverage"
       THEN KpiReturn(c, kpi_response(reqs[c].month, reqs[c].got.owner[1],
                                      reqs[c].got.env[1], reqs[c].got.coverage[1]))
       ELSE KpiGoto(c, "open", NextPart(reqs[c].part))
    /\ UNCHANGED <<billing, resources, dropped>>

\* The concurrency specification: the tables do not change, the clients
\* ask for the same month.
ConcMonth == "2025-08"

ConcBilling ==
    {<<BRow(ConcMonth, <<"r", "1">>, <<1>>, <<1000>>, <<1000>>)>>,
     <<BRow(ConcMonth, <<"r", "1">>, <<1>>, <<1000>>, <<1000>>),
       BRow(ConcMonth, <<"r", "2">>, <<1>>, <<250>>, <<250>>)>>}

ConcResources ==
    {<<>>, <<RRow(<<"r", "1">>, "team1", "prod")>>,
     <<RRow(<<"r", "1">>, "team1", "prod"), RRow(<<"r", "1", " ">>, "team2", "dev")>>}

InitConc ==
    /\ billing \in ConcBilling
    /\ resources \in ConcResources
    /\ result = [op |-> "none"]
    /\ dropped = {}
    /\ cache = EmptyCache
    /\ reqs = [c \in Clients |-> Idle]

NextConc ==
    \/ \E c \in Clients, refresh \in BOOLEAN : KpiBegin(c, ConcMonth, refresh)
    \/ \E c \in Clients : KpiExists(c)
    \/ \E c \in Clients : KpiRead(c)
    \/ \E c \in Clients : KpiCompute(c)
    \/ \E c \in Clients : KpiOpen(c)
    \/ \E c \in Clients : KpiWrite(c)

SpecConc == InitConc /\ [][NextConc]_vars

\* The specification of requests under writes: ingest.py and
\* seed_resources.py run as processes of their own, so an insert can land
\* between any two steps of a request.
WriteBillingRows ==
    {BRow("2025-07", <<"r", "1">>, <<1>>, <<1000>>, <<1000>>),
     BRow(ConcMonth, <<"r", "1">>, <<1>>, <<1000>>, <<1000>>),
     BRow(ConcMonth, <<"r", "2">>, <<1>>, <<250>>, <<250>>)}

WriteResourceRows == {RRow(<<"r", "1">>, "team1", "prod")}

InitWrites ==
    /\ billing = <<>>
    /\ resources = <<>>
    /\ result = [op |-> "none"]
    /\ dropped = {}
    /\ cache = EmptyCache
    /\ reqs = [c \in Clients |-> Idle]

NextWrites ==
    \/ \E row \in WriteBillingRows : IngestBilling(row)
    \/ \E row \in WriteResourceRows : SeedResource(row)
    \/ \E refresh \in BOOLEAN : KpiBegin("c1", ConcMonth, refresh)
    \/ KpiExists("c1")
    \/ KpiRead("c1")
    \/ KpiCompute("c1")
    \/ KpiOpen("c1")
    \/ KpiWrite("c1")

SpecWrites == InitWrites /\ [][NextWrites]_vars

(***************************************************************************)
(* analytics.py: six_month_trend.  The pivot table is its index (the       *)
(* months), its columns (the group values) and one row of cells per month. *)
(***************************************************************************)
\* pd.DataFrame()
EmptyFrame == [index |-> <<>>, columns |-> <<>>, values |-> <<>>]

TrendWindow == 6

\* Mutant: the first six months instead of the last six.
first6(months) ==
    SubSeq(months, 1, IF Len(months) > TrendWindow THEN TrendWindow ELSE Len(months))

\* months[-6:]
last6(months) ==
    SubSeq(months, IF Len(months) > TrendWindow THEN Len(months) - TrendWindow + 1 ELSE 1,
           Len(months))

InSeq(x, seq) == \E i \in 1..Len(seq) : seq[i] = x

\* agg = sub.groupby(["invoice_month", group_by])["cost"].sum(), pivoted:
\* a (month, group) of agg gives its sum, fillna(0) the other cells
trend_cell(sub, month, group, group_by) ==
    SumCost(SelectSeq(sub, LAMBDA r : r.invoice_month = month /\ r[group_by] = group))

trend_pivot(sub, index, columns, group_by) ==
    [index |-> index, columns |-> columns,
     values |-> [i \in 1..Len(index) |->
                    [j \in 1..Len(columns) |->
                        trend_cell(sub, index[i], columns[j], group_by)]]]

\* pivot(...).sort_index(): the months and the group values of sub, sorted
trend_of_rows(sub, group_by) ==
    trend_pivot(sub, SortStrings({sub[i].invoice_month : i \in 1..Len(sub)}),
                SortStrings({sub[i][group_by] : i \in 1..Len(sub)}), group_by)

trend_of_months(df, last, group_by) ==
    trend_of_rows(SelectSeq(df, LAMBDA r : InSeq(r.invoice_month, last)), group_by)

trend_of(e, group_by) ==
    IF e.status = "error" THEN e
    ELSE IF e.value = <<>> THEN Returned(EmptyFrame)
    ELSE Returned(trend_of_months(
             e.value,
             last6(SortStrings({e.value[i].invoice_month : i \in 1..Len(e.value)})),
             group_by))

six_month_trend(b0, r0, group_by) == trend_of(enrich_billing(b0, r0), group_by)

SixMonthTrend(group_by) ==
    /\ result' = [op |-> "six_month_trend", group_by |-> group_by,
                  out |-> six_month_trend(read_billing, read_resources, group_by)]
    /\ UNCHANGED <<billing, resources, dropped, cache, reqs>>

\* The trend specification: an ingested file holds one row per month of a
\* set of months, for one of two resources, and a second row in its last
\* month.
TrendMonths ==
    {"2025-01", "2025-02", "2025-03", "2025-04", "2025-05", "2025-06", "2025-07",
     "2025-08"}

TrendRow(month, k) ==
    BRow(month, IF (StrRank(month) + k) % 2 = 0 THEN <<"r", "1">> ELSE <<"r", "2">>,
         <<1>>, <<100>>, <<100 * StrRank(month)>>)

TrendFile(months, k) ==
    [i \in 1..Len(months) |-> TrendRow(months[i], k)]
        \o (IF months = <<>> THEN <<>>
            ELSE << BRow(months[Len(months)], <<"r", "1">>, <<1>>, <<100>>, <<50>>) >>)

TrendFiles == {TrendFile(SortStrings(S), k) : S \in SUBSET TrendMonths, k \in {0, 1}}

TrendResources ==
    {<<>>, <<RRow(<<"r", "1">>, "team1", "prod")>>,
     <<RRow(<<"r", "1">>, "team1", "prod"), RRow(<<"r", "2">>, "team2", NA)>>}

InitTrend ==
    /\ billing \in TrendFiles
    /\ resources \in TrendResources
    /\ result = [op |-> "none"]
    /\ dropped = {}
    /\ cache = EmptyCache
    /\ reqs = NoRequests

NextTrend == \E group_by \in {"owner", "env"} : SixMonthTrend(group_by)

SpecTrend == InitTrend /\ [][NextTrend]_vars

(***************************************************************************)
(* The scenario of tests/test_recommendations.py: four resources in        *)
(* 2025-08, written to the two tables with to_sql(if_exists="replace").    *)
(* The tables hold the rows in any order.                                  *)
(***************************************************************************)
res1 == <<"r", "e", "s", "1">>

res2 == <<"r", "e", "s", "2">>

res3 == <<"r", "e", "s", "3">>

res4 == <<"r", "e", "s", "4">>

sample_billing_data ==
    {BRow("2025-08", res1, <<10>>, <<1000>>, <<100000>>),
     BRow("2025-08", res2, <<1>>, <<2000>>, <<200000>>),
     BRow("2025-08", res3, <<5>>, <<1500>>, <<75000>>),
     BRow("2025-08", res4, <<0>>, <<3000>>, <<50000>>)}

sample_resources_data ==
    {RRow(res1, "team1", "prod"),
     RRow(res2, "unassigned", "dev"),
     RRow(res3, "team2", "unassigned"),
     RRow(res4, "unassigned", "unassigned")}

\* the tables that hold exactly the rows of S
TablesOf(S) ==
    {t \in [1..Cardinality(S) -> S] : \A i, j \in 1..Cardinality(S) : t[i] = t[j] => i = j}

InitScenario ==
    /\ billing \in TablesOf(sample_billing_data)
    /\ resources \in TablesOf(sample_resources_data)
    /\ result = [op |-> "none"]
    /\ dropped = {}
    /\ cache = EmptyCache
    /\ reqs = NoRequests

NextScenario ==
    \/ FindIdleResources(<<1, 5>>, 40000)
    \/ FindTaggingGaps
    \/ OwnerCoverage("2025-08")
    \/ GetAllRecommendations

SpecScenario == InitScenario /\ [][NextScenario]_vars

(***************************************************************************)
(* The store from a fresh database: neither table exists until             *)
(* models.create_tables creates both or the first ingestion creates        *)
(* billing.                                                                *)
(***************************************************************************)
\* metadata.create_all(engine): creates the tables that do not exist
CreateTables ==
    /\ dropped' = {}
    /\ result' = [op |-> "create_tables"]
    /\ UNCHANGED <<billing, resources, cache, reqs>>

InitStore ==
    /\ billing = <<>>
    /\ resources = <<>>
    /\ result = [op |-> "none"]
    /\ dropped = {"billing", "resources"}
    /\ cache = EmptyCache
    /\ reqs = NoRequests

NextStore ==
    \/ CreateTables
    \/ \E row \in KpiBillingRows : IngestBilling(row)
    \/ \E row \in KpiResourceRows : SeedResource(row)
    \/ EnrichBilling
    \/ \E month \in KpiMonths : MonthlyCostByOwner(month)
    \/ \E month \in KpiMonths : MonthlyCostByEnv(month)
    \/ \E month \in KpiMonths : OwnerCoverage(month)
    \/ \E group_by \in {"owner", "env"} : SixMonthTrend(group_by)
    \/ FindIdleResources(DefaultUsageThreshold, DefaultCostThreshold)
    \/ FindCostSpikes(DefaultSpikeThreshold)
    \/ FindTaggingGaps
    \/ GetAllRecommendations

SpecStore == InitStore /\ [][NextStore]_vars

(***************************************************************************)
(* The normalization specification: ids with surrounding whitespace, the   *)
(* text "nan", a whitespace-only id and a NULL id on both sides.           *)
(***************************************************************************)
StoredIds ==
    {<<"r", "1">>, <<" ", "r", "1", "\t">>, <<"n", "a", "n">>, <<" ", "n", "a", "n">>,
     <<" ">>, NAid}

IdBillingRows == {BRow("2025-08", rid, <<1>>, <<1000>>, <<1000>>) : rid \in StoredIds}

IdResourceRows ==
    {RRow(rid, "team1", "prod") : rid \in StoredIds \ {NAid}}
        \cup {RRow(<<"r", "1", " ">>, "team2", NA)}

\* the two normalize_resource_ids calls of enrich_billing, on the tables
\* load_tables returned
NormalizeResourceIds ==
    /\ dropped = {}
    /\ result' = [op |-> "normalize_resource_ids",
                  billing |-> normalize_resource_ids(billing),
                  resources |-> normalize_resource_ids(resources)]
    /\ UNCHANGED <<billing, resources, dropped, cache, reqs>>

NextIds ==
    \/ \E row \in IdBillingRows : IngestBilling(row)
    \/ \E row \in IdResourceRows : SeedResource(row)
    \/ NormalizeResourceIds
    \/ EnrichBilling

SpecIds == Init /\ [][NextIds]_vars

(***************************************************************************)
(* The detector specification: rows of two months for a resource and for   *)
(* the id "nan", idle and busy, with metadata that leaves an owner or an   *)
(* env missing.                                                            *)
(***************************************************************************)
\* (usage_qty, unit_cost, cost in cents)
DetMeasures == {<<0, 10, 20000>>, <<100, 40, 250>>}

DetBillingRows ==
    {BRow(m, rid, <<x[1]>>, <<x[2]>>, <<x[3]>>) :
        m \in {"2025-07", "2025-08"},
        rid \in {<<"r", "1">>, <<"n", "a", "n">>},
        x \in DetMeasures}

DetResourceRows ==
    {RRow(<<"r", "1">>, "team1", "prod"),
     RRow(<<"r", "1">>, NA, "dev"),
     RRow(<<"n", "a", "n">>, "team2", NA)}

NextDetect ==
    \/ \E row \in DetBillingRows : IngestBilling(row)
    \/ \E row \in DetResourceRows : SeedResource(row)
    \/ \E u \in UsageThresholds, c \in CostThresholds : FindIdleResources(u, c)
    \/ FindCostSpikes(DefaultSpikeThreshold)
    \/ FindTaggingGaps
    \/ GetAllRecommendations

SpecDetect == Init /\ [][NextDetect]_vars

(***************************************************************************)
(* analytics.py: unit_cost_changes                                         *)
(***************************************************************************)
\* Mutant: the signed change compared, as find_cost_spikes does.
IsChangeSigned(a, threshold_pct) == RatGeq(a.pct_change, threshold_pct)

\* agg["pct_change"].abs() >= float(threshold_pct)
IsChange(a, threshold_pct) ==
    RatGeq(<<Abs(a.pct_change[1]), a.pct_change[2]>>, threshold_pct)

\* A flagged row; pct_change.round(4) is in units of 1/10000, the unit costs
\* are means kept as sum and count.
ChangeRow(a) ==
    [resource_id |-> a.resource_id,
     invoice_month |-> a.invoice_month,
     unit_cost |-> a.unit_cost,
     prev_unit_cost |-> a.prev_unit_cost,
     pct_change |-> RoundDiv(10000 * a.pct_change[1], a.pct_change[2])]

changes_flagged(changes, threshold_pct) ==
    [k \in 1..Len(changes) |-> ChangeRow(changes[k])]

changes_of(e, threshold_pct) ==
    IF e.status = "error" THEN e
    ELSE Returned(changes_flagged(
             SelectSeq(UnitCostChanges(e.value), LAMBDA a : IsChange(a, threshold_pct)),
             threshold_pct))

\* flagged, before the final sort
unit_cost_changes(b0, r0, threshold_pct) ==
    changes_of(enrich_billing(b0, r0), threshold_pct)

\* sort_values("pct_change", ascending=False): the order of rows with equal
\* pct_change is not fixed by the sort (quicksort), every descending
\* arrangement of the rows can be returned.
Arrangements(rows) ==
    {[i \in 1..Len(rows) |-> rows[p[i]]] :
        p \in {q \in [1..Len(rows) -> 1..Len(rows)] :
                  \A i, j \in 1..Len(rows) : q[i] = q[j] => i = j}}

SortedByChange(rows) ==
    {s \in Arrangements(rows) :
        \A i, j \in 1..Len(s) : i < j => s[i].pct_change >= s[j].pct_change}

UnitCostChangesReturn(threshold_pct, flagged) ==
    IF flagged.status = "error"
    THEN result' = [op |-> "unit_cost_changes", threshold_pct |-> threshold_pct,
                    out |-> flagged]
    ELSE \E sorted \in SortedByChange(flagged.value) :
            result' = [op |-> "unit_cost_changes", threshold_pct |-> threshold_pct,
                       out |-> Returned(sorted)]

GetUnitCostChanges(threshold_pct) ==
    /\ UnitCostChangesReturn(threshold_pct,
                             unit_cost_changes(read_billing, read_resources, threshold_pct))
    /\ UNCHANGED <<billing, resources, dropped, cache, reqs>>

ChangeThresholds == {<<1, 5>>, <<1, 2>>}

(***************************************************************************)
(* The spike specification: an ingested file holds, for each of three      *)
(* months, no row, one row or two rows of resource r1, and possibly a row  *)
(* of r2 in the last month.                                                *)
(***************************************************************************)
\* (usage_qty, unit_cost, cost in cents)
SpikeMeasures == RecMeasures \cup {<<5, 0, 300>>}

\* the rows of r1 in a month
MonthChoices ==
    {<<>>} \cup {<<x>> : x \in SpikeMeasures}
           \cup {<< <<0, 10, 10002>>, <<8, 13, 20000>> >>}

SpikeMonthRows(month, xs) ==
    [i \in 1..Len(xs) |-> BRow(month, <<"r", "1">>, <<xs[i][1]>>, <<xs[i][2]>>, <<xs[i][3]>>)]

SpikeFile(c7, c8, c9, other) ==
    SpikeMonthRows("2025-07", c7) \o SpikeMonthRows("2025-08", c8)
        \o SpikeMonthRows("2025-09", c9) \o other

SpikeFiles ==
    {SpikeFile(c7, c8, c9, other) :
        c7 \in MonthChoices, c8 \in MonthChoices, c9 \in MonthChoices,
        other \in {<<>>, << BRow("2025-09", <<"r", "2">>, <<1>>, <<10>>, <<700>>) >>}}

InitSpike ==
    /\ billing \in SpikeFiles
    /\ resources \in {<<>>, << RRow(<<"r", "1">>, "team1", "prod") >>}
    /\ result = [op |-> "none"]
    /\ dropped = {}
    /\ cache = EmptyCache
    /\ reqs = NoRequests

NextSpike ==
    \/ \E t \in SpikeThresholds : FindCostSpikes(t)
    \/ \E t \in ChangeThresholds : GetUnitCostChanges(t)
    \/ GetAllRecommendations

SpecSpike == InitSpike /\ [][NextSpike]_vars

(***************************************************************************)
(* analytics.py: top_n_cost_drivers                                        *)
(***************************************************************************)
TopKey(r) == <<r.resource_id, r.service, r.resource_group, r.owner>>

\* dfm.groupby([...], dropna=False)["cost"].sum(): a missing resource_id is
\* a group key like any other
TopGroup(dfm, key) ==
    [resource_id |-> key[1], service |-> key[2], resource_group |-> key[3],
     owner |-> key[4],
     cost |-> SumCost(SelectSeq(dfm, LAMBDA r : TopKey(r) = key))]

TopGroups(dfm) == {TopGroup(dfm, TopKey(dfm[i])) : i \in 1..Len(dfm)}

\* sort_values("cost", ascending=False): the order of groups of equal cost
\* is not fixed by the sort
SortedByCost(groups) ==
    {s \in TablesOf(groups) : \A i, j \in 1..Len(s) : i < j => s[i].cost >= s[j].cost}

\* Mutant: head(n) left out.
head_skipped(rows, n) == rows

\* DataFrame.head(n): the first n rows, and for a negative n all rows but
\* the last -n
head(rows, n) ==
    IF n >= 0 THEN SubSeq(rows, 1, IF n < Len(rows) THEN n ELSE Len(rows))
    ELSE SubSeq(rows, 1, IF Len(rows) + n > 0 THEN Len(rows) + n ELSE 0)

TopReturn(month, n, e) ==
    IF e.status = "error"
    THEN result' = [op |-> "top_n_cost_drivers", month |-> month, n |-> n, out |-> e]
    ELSE \E agg \in SortedByCost(TopGroups(FilterMonth(e.value, month))) :
            result' = [op |-> "top_n_cost_drivers", month |-> month, n |-> n,
                       out |-> Returned(head(agg, n))]

\* GET /kpi/top: n is any integer of the query string
GetTopCostDrivers(month, n) ==
    /\ TopReturn(month, n, enrich_billing(read_billing, read_resources))
    /\ UNCHANGED <<billing, resources, dropped, cache, reqs>>

\* The top-n specification: rows of two services of a resource and of the
\* id "nan", in two months.
TopBillingRows ==
    {BRowOf(m, x[1], x[2], "rg1", <<1>>, <<c>>, <<c>>) :
        m \in KpiMonths,
        x \in {<< <<"r", "1">>, "vm" >>, << <<"r", "1">>, "db" >>, << <<"n", "a", "n">>, "vm" >>},
        c \in {250, 1000}}

TopCounts == -1..3

NextTop ==
    \/ \E row \in TopBillingRows : IngestBilling(row)
    \/ SeedResource(RRow(<<"r", "1">>, "team1", "prod"))
    \/ \E month \in KpiMonths, n \in TopCounts : GetTopCostDrivers(month, n)

SpecTop == Init /\ [][NextTop]_vars

(***************************************************************************)
(* Properties.  What a claim says of the tables is stated on the raw       *)
(* tables, independently of the operators above.                           *)
(***************************************************************************)
\* billing["cost"].sum() over the rows of the table (NULL counts 0)
RECURSIVE RawCost(_)
RawCost(rows) ==
    IF rows = <<>> THEN 0 ELSE to_numeric(Head(rows).cost) + RawCost(Tail(rows))

\* SELECT cost FROM billing WHERE invoice_month = month, summed
MonthBillingCost(month) == RawCost(SelectSeq(billing, LAMBDA r : r.invoice_month = month))

\* no resource_id is stored twice in the resources table
NoDuplicateIds ==
    \A i, j \in 1..Len(resources) :
        i # j => resources[i].resource_id # resources[j].resource_id

\* no two rows of the resources table have the same normalized resource_id
NoDuplicateNormalizedIds ==
    \A i, j \in 1..Len(resources) :
        i # j => normalize_id(resources[i].resource_id)
                    # normalize_id(resources[j].resource_id)

\* the rows of the resources table whose normalized id is rid
MetadataOf(rid) ==
    SelectSeq(resources, LAMBDA r : normalize_id(r.resource_id) = rid)

OneRowPerBillingRow ==
    /\ result.out.status = "ok"
    /\ Len(result.out.value) = Len(billing)
    /\ \A i \in 1..Len(billing) :
          /\ result.out.value[i].invoice_month = billing[i].invoice_month
          /\ result.out.value[i].resource_id = normalize_id(billing[i].resource_id)
          /\ result.out.value[i].cost = to_numeric(billing[i].cost)
    /\ SumCost(result.out.value) = RawCost(billing)

\* C1 as stated: whenever the resources table stores no resource_id twice,
\* enrich_billing returns exactly one enriched row per billing row and the
\* summed cost is unchanged.
C1_JoinConservationAsStated ==
    (result.op = "enrich_billing" /\ NoDuplicateIds) => OneRowPerBillingRow

\* C1 amended: whenever no two metadata rows have the same resource_id after
\* normalization, enrich_billing returns exactly one enriched row per
\* billing row, in order, and the summed cost is unchanged.
C1_JoinConservation ==
    (result.op = "enrich_billing" /\ NoDuplicateNormalizedIds) => OneRowPerBillingRow

C1_Witness ==
    /\ result.op = "enrich_billing"
    /\ NoDuplicateNormalizedIds
    /\ Len(billing) = 2
    /\ \E i \in 1..2 : MetadataOf(result.out.value[i].resource_id) # <<>>
    /\ \E i \in 1..2 : MetadataOf(result.out.value[i].resource_id) = <<>>

CoreOps ==
    {"enrich_billing", "monthly_cost_by_owner", "monthly_cost_by_env",
     "owner_coverage", "find_idle_resources", "find_cost_spikes",
     "find_tagging_gaps", "get_all_recommendations", "get_recommendations"}

\* C2: when some resource_id is stored in more than one metadata row,
\* enrich_billing raises and returns no rows, and so does every KPI query,
\* every detector and the report built on it.
C2_DuplicateMetadataFails ==
    (result.op \in CoreOps /\ ~NoDuplicateIds) =>
        (result.out.status = "error" /\ "value" \notin DOMAIN result.out)

C2_Witness ==
    /\ result.op = "enrich_billing"
    /\ ~NoDuplicateIds
    /\ \E i \in 1..Len(billing) :
          Len(MetadataOf(normalize_id(billing[i].resource_id))) = 2
    /\ result.out.status = "error"

Filled(v) == IF v = NA THEN "unassigned" ELSE v

\* C3: every enriched row has a non-null owner and env: the value of the
\* metadata row with the same resource_id when present, "unassigned" when
\* no metadata row matches or the value is null; with an empty resources
\* table every row is unassigned.
C3_OwnerEnvFilled ==
    (result.op = "enrich_billing" /\ result.out.status = "ok") =>
        \A i \in 1..Len(result.out.value) :
            LET row == result.out.value[i]
                m == MetadataOf(row.resource_id)
            IN  /\ row.owner # NA /\ row.env # NA
                /\ m = <<>> => row.owner = "unassigned" /\ row.env = "unassigned"
                /\ m # <<>> => row.owner = Filled(m[1].owner) /\ row.env = Filled(m[1].env)
                /\ resources = <<>> => row.owner = "unassigned" /\ row.env = "unassigned"

C3_Witness ==
    /\ result.op = "enrich_billing"
    /\ result.out.status = "ok"
    /\ \E i \in 1..Len(result.out.value) :
          /\ MetadataOf(result.out.value[i].resource_id) # <<>>
          /\ result.out.value[i].owner = "team2"
          /\ result.out.value[i].env = "unassigned"
    /\ \E i \in 1..Len(result.out.value) :
          MetadataOf(result.out.value[i].resource_id) = <<>>

\* C4: the costs of monthly_cost_by_owner(month) sum to the cost of the
\* billing rows of that month, and so do the costs of monthly_cost_by_env
\* and the total_cost of owner_coverage.
C4_MonthlyTotalsAgree ==
    /\ (result.op \in {"monthly_cost_by_owner", "monthly_cost_by_env"}
            /\ result.out.status = "ok")
          => SumCost(result.out.value) = MonthBillingCost(result.month)
    /\ (result.op = "owner_coverage" /\ result.out.status = "ok")
          => result.out.value.total_cost = MonthBillingCost(result.month)

C4_Witness ==
    /\ result.op = "monthly_cost_by_owner"
    /\ result.out.status = "ok"
    /\ Len(result.out.value) = 1
    /\ result.out.value[1].cost > 0
    /\ RawCost(billing) > MonthBillingCost(result.month)

\* C5: with no negative costs, owner_coverage gives
\* 0 <= coverage_pct <= 1 and assigned_cost <= total_cost, and when the
\* month's cost is 0 it returns coverage_pct 0 instead of failing.
C5_CoverageBounds ==
    result.op = "owner_coverage" =>
        /\ result.out.status = "ok" =>
              /\ 0 <= result.out.value.coverage_pct
              /\ result.out.value.coverage_pct <= 10000
              /\ 0 <= result.out.value.assigned_cost
              /\ result.out.value.assigned_cost <= result.out.value.total_cost
              /\ result.out.value.total_cost = 0 => result.out.value.coverage_pct = 0
        /\ (NoDuplicateNormalizedIds /\ MonthBillingCost(result.month) = 0) =>
              /\ result.out.status = "ok"
              /\ result.out.value.coverage_pct = 0

C5_Witness ==
    /\ result.op = "owner_coverage"
    /\ result.out.status = "ok"
    /\ \E i \in 1..Len(billing) : billing[i].invoice_month = result.month
    /\ result.out.value.total_cost = 0
    /\ result.out.value.coverage_pct = 0

(***************************************************************************)
(* Properties of the detectors                                             *)
(***************************************************************************)
AllMonths == {billing[i].invoice_month : i \in 1..Len(billing)}

AllIds == {normalize_id(billing[i].resource_id) : i \in 1..Len(billing)} \ {NAid}

IsLatestMonth(m) ==
    m \in AllMonths /\ \A q \in AllMonths : q = m \/ StrLess(q, m)

\* the resources listed by the (single) recommendation of a detector
Entries == IF result.out.value = <<>> THEN <<>> ELSE result.out.value[1].resources

\* C6 as stated: a latest-month resource with usage_qty = 0 and cost above
\* cost_threshold is listed by find_idle_resources for every positive
\* usage_threshold, whatever the other rows of the month.
C6_ZeroUsageAlwaysFlagged ==
    (result.op = "find_idle_resources" /\ result.out.status = "ok"
        /\ result.usage_threshold[1] > 0) =>
        \A i \in 1..Len(billing) :
            (/\ IsLatestMonth(billing[i].invoice_month)
             /\ normalize_id(billing[i].resource_id) # NAid
             /\ to_numeric(billing[i].usage_qty) = 0
             /\ to_numeric(billing[i].cost) > result.cost_threshold)
            => \E j \in 1..Len(Entries) :
                  Entries[j].resource_id = normalize_id(billing[i].resource_id)

\* The rows of a resource in a month, and its unit cost there as the sum
\* and the number of the rows' unit costs (the mean is their quotient).
RowsAt(rid, m) ==
    SelectSeq(billing, LAMBDA r : normalize_id(r.resource_id) = rid /\ r.invoice_month = m)

RECURSIVE RawUnitCost(_)
RawUnitCost(rows) ==
    IF rows = <<>> THEN 0 ELSE to_numeric(Head(rows).unit_cost) + RawUnitCost(Tail(rows))

\* p is the month before m among the months the resource is present in
IsPrevMonth(rid, p, m) ==
    /\ RowsAt(rid, p) # <<>> /\ RowsAt(rid, m) # <<>>
    /\ StrLess(p, m)
    /\ \A q \in AllMonths : (RowsAt(rid, q) # <<>> /\ StrLess(q, m)) => (q = p \/ StrLess(q, p))

Decreased(rid, m) ==
    \E p \in AllMonths :
        /\ IsPrevMonth(rid, p, m)
        /\ RawUnitCost(RowsAt(rid, m)) * Len(RowsAt(rid, p))
              < RawUnitCost(RowsAt(rid, p)) * Len(RowsAt(rid, m))

\* the mean unit cost rose by at least thr relative to the previous month
RoseBy(rid, m, thr) ==
    \E p \in AllMonths :
        LET sm == RawUnitCost(RowsAt(rid, m))
            nm == Len(RowsAt(rid, m))
            sp == RawUnitCost(RowsAt(rid, p))
            np == Len(RowsAt(rid, p))
        IN  /\ IsPrevMonth(rid, p, m)
            /\ sp > 0
            /\ (sm * np - sp * nm) * thr[2] >= thr[1] * sp * nm

NoDecreaseFlagged ==
    \A j \in 1..Len(Entries) :
        ~Decreased(Entries[j].resource_id, Entries[j].invoice_month)

EveryRiseFlagged ==
    \A rid \in AllIds, m \in AllMonths :
        RoseBy(rid, m, result.threshold_pct) =>
            \E j \in 1..Len(Entries) :
                Entries[j].resource_id = rid /\ Entries[j].invoice_month = m

Dicts ==
    IF result.op \in {"get_all_recommendations", "get_recommendations"}
    THEN result.out.value.recommendations
    ELSE [k \in 1..Len(result.out.value) |-> to_dict(result.out.value[k])]

SavingsWithinCost(rec) ==
    \A j \in 1..Len(rec.resources) :
        LET e == rec.resources[j]
        IN  /\ rec.type = "idle_resources" =>
                  (0 <= e.potential_savings /\ e.potential_savings <= e.current_monthly_cost)
            /\ (rec.type = "cost_spikes" /\ e.current_monthly_cost # NaN) =>
                  (0 <= e.potential_savings[1]
                     /\ e.potential_savings[1] <= e.current_monthly_cost[1])

\* C8 as stated: with non-negative costs, every entry that carries both
\* current_monthly_cost and potential_savings has
\* 0 <= potential_savings <= current_monthly_cost, and every estimate and
\* the report's total are >= 0.
C8_SavingsBounded ==
    (/\ result.op \in {"find_idle_resources", "find_cost_spikes", "find_tagging_gaps",
                       "get_all_recommendations", "get_recommendations"}
     /\ result.out.status = "ok"
     /\ result.op = "find_cost_spikes" => result.threshold_pct[1] >= 0) =>
        /\ \A k \in 1..Len(Dicts) :
              SavingsWithinCost(Dicts[k]) /\ Dicts[k].estimated_monthly_savings >= 0
        /\ result.op \in {"get_all_recommendations", "get_recommendations"} =>
              result.out.value.total_estimated_monthly_savings >= 0

\* C9 as stated: in the response to GET /recommendations every
\* idle_resources entry has utilization <= usage_threshold x 100 and
\* current_monthly_cost >= cost_threshold, and every cost_spikes entry a
\* unit-cost increase >= spike_threshold, for the thresholds of the request.
C9_ThresholdsApplied ==
    (result.op = "get_recommendations" /\ result.out.status = "ok") =>
        \A k \in 1..Len(Dicts) : \A j \in 1..Len(Dicts[k].resources) :
            LET e == Dicts[k].resources[j]
            IN  /\ Dicts[k].type = "idle_resources" =>
                      /\ e.utilization * result.usage_threshold[2]
                            <= 1000 * result.usage_threshold[1]
                      /\ e.current_monthly_cost >= result.cost_threshold
                /\ Dicts[k].type = "cost_spikes" =>
                      RatGeq(e.pct_change, result.spike_threshold)

\* The unrounded estimate of a recommendation, from its entries: 70% of
\* the idle cost, 20% of the unattributed cost, half of cost x pct_change.
ImpliedSavings(rec) ==
    LET n == Len(rec.resources)
    IN  IF rec.type = "idle_resources"
        THEN Rat(7 * SumOf([j \in 1..n |-> rec.resources[j].current_monthly_cost]), 10)
        ELSE IF rec.type = "tagging_gaps"
        THEN Rat(2 * SumOf([j \in 1..n |-> rec.resources[j].monthly_unattributed_cost]), 10)
        ELSE RatSum([j \in 1..n |->
                LET e == rec.resources[j]
                IN  IF e.current_monthly_cost = NaN THEN <<0, 1>>
                    ELSE Rat(e.current_monthly_cost[1] * e.pct_change[1],
                             2 * e.pct_change[2])])

ReportedSum ==
    SumOf([k \in 1..Len(Dicts) |-> Dicts[k].estimated_monthly_savings])

\* C10 as stated: the report's total equals the sum of the
\* estimated_monthly_savings of its recommendations, and is 0 without any.
C10_TotalIsSumOfReported ==
    (result.op = "get_all_recommendations" /\ result.out.status = "ok") =>
        /\ result.out.value.total_estimated_monthly_savings = ReportedSum
        /\ Dicts = <<>> => result.out.value.total_estimated_monthly_savings = 0

\* C10 amended: the report's total is the sum of the recommendations'
\* unrounded estimates, rounded to 2 decimals, each reported
\* estimated_monthly_savings being the rounding of its own estimate; it is
\* 0 when no recommendation is returned.
C10_TotalIsRoundedSum ==
    (result.op = "get_all_recommendations" /\ result.out.status = "ok") =>
        /\ result.out.value.total_estimated_monthly_savings
              = Round2(RatSum([k \in 1..Len(Dicts) |-> ImpliedSavings(Dicts[k])]))
        /\ \A k \in 1..Len(Dicts) :
              Dicts[k].estimated_monthly_savings = Round2(ImpliedSavings(Dicts[k]))
        /\ Dicts = <<>> => result.out.value.total_estimated_monthly_savings = 0

C10_Witness ==
    /\ result.op = "get_all_recommendations"
    /\ result.out.status = "ok"
    /\ Len(Dicts) >= 2
    /\ result.out.value.total_estimated_monthly_savings # ReportedSum

(***************************************************************************)
(* Properties of the services: failures, repetition, cache, concurrency    *)
(***************************************************************************)
\* C11: a request for recommendations that ends while two metadata rows
\* have the same normalized id (the detector that is called raises) ends
\* with the error of that detector, as HTTP 500, and carries no report,
\* whatever the detectors called before it had returned.
C11_DetectorFailureAbortsReport ==
    (result.op = "GET /recommendations" /\ ~NoDuplicateNormalizedIds) =>
        /\ result.out.status = "error"
        /\ result.out.code = 500
        /\ result.out.error = "MergeError"
        /\ "value" \notin DOMAIN result.out

\* a detector raised after another one had returned a recommendation
C11_Witness ==
    /\ result.op = "GET /recommendations"
    /\ ~NoDuplicateNormalizedIds
    /\ result.out.status = "error"
    /\ result.all_recs # <<>>

Complete(snap) == snap.owner # <<>> /\ snap.env # <<>> /\ snap.coverage # <<>>

\* the response read from the files of a snapshot, whatever the tables hold
Served(snap, month) ==
    kpi_response(month, read_owner_csv(snap.owner[1]).value,
                 read_env_csv(snap.env[1]).value, json_load(snap.coverage[1]).value)

\* what GET /kpi computes from the tables as they are
Fresh(month) == kpis_fresh(read_billing, read_resources, month, EmptySnapshot)

KpiHit ==
    result.op = "get_kpis" /\ ~result.refresh /\ Complete(result.snapshot0)

\* C13: a GET /kpi without refresh that finds a complete snapshot answers
\* from it and leaves it in place, whatever the tables hold by then; one
\* with refresh answers from the tables and, unless the computation
\* raises, replaces the snapshot by what it computed; and no step other
\* than a GET /kpi with refresh for that month changes a complete snapshot.
C13_SnapshotServedUntilRefresh ==
    /\ [](/\ KpiHit =>
                /\ result.out = Served(result.snapshot0, result.month)
                /\ cache[result.month] = result.snapshot0
          /\ (result.op = "get_kpis" /\ result.refresh) =>
                /\ result.out = Fresh(result.month).out
                /\ cache[result.month] =
                      IF result.out.status = "ok" THEN Fresh(result.month).snapshot
                      ELSE result.snapshot0)
    /\ [][\A m \in KpiMonths :
             (Complete(cache[m]) /\ cache'[m] # cache[m]) =>
                 (result'.op = "get_kpis" /\ result'.month = m /\ result'.refresh)]_vars

\* a snapshot served after the tables changed: the answer is not what the
\* tables give
C13_Witness ==
    /\ KpiHit
    /\ result.out.status = "ok"
    /\ Fresh(result.month).out.status = "ok"
    /\ result.out # Fresh(result.month).out

\* C14: over unchanged tables and a cache that starts empty, every GET /kpi
\* of concurrent clients for one month ends with the response a request
\* computes from the tables when it runs alone, and once no request is in
\* flight the snapshot of the month is absent or the one such a request
\* saves.
C14_ConcurrentRequestsAgree ==
    /\ result.op = "GET /kpi" => result.out = Fresh(result.month).out
    /\ (\A c \in Clients : reqs[c].pc = "idle") =>
           \/ cache[ConcMonth] = EmptySnapshot
           \/ cache[ConcMonth] = Fresh(ConcMonth).snapshot

(***************************************************************************)
(* Properties of the trend table                                           *)
(***************************************************************************)
BillingMonths == {billing[i].invoice_month : i \in 1..Len(billing)}

\* the months of the table that fewer than TrendWindow months follow
LatestMonths ==
    {m \in BillingMonths :
        Cardinality({x \in BillingMonths : StrLess(m, x)}) < TrendWindow}

\* the owner or env the metadata gives to a billing row
GroupOfRow(row, group_by) ==
    IF MetadataOf(normalize_id(row.resource_id)) = <<>> THEN "unassigned"
    ELSE IF MetadataOf(normalize_id(row.resource_id))[1][group_by] = NA THEN "unassigned"
    ELSE MetadataOf(normalize_id(row.resource_id))[1][group_by]

GroupsIn(months, group_by) ==
    {GroupOfRow(billing[i], group_by) :
        i \in {k \in 1..Len(billing) : billing[k].invoice_month \in months}}

Ascending(seq) == \A i, j \in 1..Len(seq) : i < j => StrLess(seq[i], seq[j])

Trend == result.out.value

\* C15: six_month_trend returns min(6, number of distinct months) rows,
\* the greatest months in ascending order, one column per group value
\* occurring in those months, each cell the summed cost of its month and
\* group (0 when there is none), and an empty table when there is no month.
C15_TrendShape ==
    (result.op = "six_month_trend" /\ result.out.status = "ok") =>
        /\ Len(Trend.index) =
              IF Cardinality(BillingMonths) < 6 THEN Cardinality(BillingMonths) ELSE 6
        /\ Ascending(Trend.index)
        /\ {Trend.index[i] : i \in 1..Len(Trend.index)} = LatestMonths
        /\ Ascending(Trend.columns)
        /\ {Trend.columns[j] : j \in 1..Len(Trend.columns)}
              = GroupsIn(LatestMonths, result.group_by)
        /\ \A i \in 1..Len(Trend.index), j \in 1..Len(Trend.columns) :
              Trend.values[i][j] =
                  RawCost(SelectSeq(billing, LAMBDA r :
                      /\ r.invoice_month = Trend.index[i]
                      /\ GroupOfRow(r, result.group_by) = Trend.columns[j]))
        /\ BillingMonths = {} => Trend = EmptyFrame

\* more than six months, two groups and a month without one of them
C15_Witness ==
    /\ result.op = "six_month_trend"
    /\ result.out.status = "ok"
    /\ Cardinality(BillingMonths) > 6
    /\ Len(Trend.index) = 6
    /\ Len(Trend.columns) = 2
    /\ \E i \in 1..6 : Trend.values[i][1] = 0 /\ Trend.values[i][2] > 0

(***************************************************************************)
(* Properties of the test scenario                                         *)
(***************************************************************************)
ScenarioLoaded ==
    /\ {billing[i] : i \in 1..Len(billing)} = sample_billing_data
    /\ {resources[i] : i \in 1..Len(resources)} = sample_resources_data
    /\ Len(billing) = 4
    /\ Len(resources) = 4
    /\ dropped = {}

\* the resource ids a detector's only recommendation lists
Flagged ==
    IF result.out.status = "ok" /\ Len(result.out.value) = 1
    THEN {result.out.value[1].resources[k].resource_id :
             k \in 1..Len(result.out.value[1].resources)}
    ELSE {}

ReportTypes ==
    IF result.out.status = "ok"
    THEN {result.out.value.recommendations[k].type :
             k \in 1..Len(result.out.value.recommendations)}
    ELSE {}

\* C16: on the scenario of res1..res4 in 2025-08, find_idle_resources(0.2,
\* 400) flags res4, find_tagging_gaps() flags res2 and res4,
\* owner_coverage("2025-08") yields assigned_cost 1750, total_cost 4250 and
\* coverage_pct 0.4118, and get_all_recommendations() contains an
\* idle_resources and a tagging_gaps recommendation.
C16_Scenario ==
    ScenarioLoaded =>
        /\ (/\ result.op = "find_idle_resources"
            /\ result.usage_threshold = <<1, 5>>
            /\ result.cost_threshold = 40000) => res4 \in Flagged
        /\ result.op = "find_tagging_gaps" => {res2, res4} \subseteq Flagged
        /\ (result.op = "owner_coverage" /\ result.month = "2025-08") =>
              result.out = Returned([month |-> "2025-08", total_cost |-> 425000,
                                     assigned_cost |-> 175000, coverage_pct |-> 4118])
        /\ result.op = "get_all_recommendations" =>
              {"idle_resources", "tagging_gaps"} \subseteq ReportTypes

\* the coverage of the scenario, its rows stored in another order than the
\* fixture's
C16_Witness ==
    /\ ScenarioLoaded
    /\ billing[1].resource_id = res4
    /\ result.op = "owner_coverage"
    /\ result.out.status = "ok"
    /\ result.out.value.coverage_pct = 4118

(***************************************************************************)
(* Properties of empty cohorts                                             *)
(***************************************************************************)
NoRowsIn(month) == \A i \in 1..Len(billing) : billing[i].invoice_month # month

LatestBilling ==
    SelectSeq(billing, LAMBDA r :
        \A i \in 1..Len(billing) : ~StrLess(r.invoice_month, billing[i].invoice_month))

\* no row can qualify for the detector that answered
NoRowQualifies ==
    \/ billing = <<>>
    \/ /\ result.op = "find_idle_resources"
       /\ \A i \in 1..Len(billing) : to_numeric(billing[i].cost) <= result.cost_threshold
    \/ /\ result.op = "find_cost_spikes"
       /\ \A i, j \in 1..Len(billing) : billing[i].invoice_month = billing[j].invoice_month
    \/ /\ result.op = "find_tagging_gaps"
       /\ \A i \in 1..Len(LatestBilling) :
             /\ GroupOfRow(LatestBilling[i], "owner") # "unassigned"
             /\ GroupOfRow(LatestBilling[i], "env") # "unassigned"

EmptyCohortAnswer ==
    /\ (result.op \in {"monthly_cost_by_owner", "monthly_cost_by_env"}
            /\ NoRowsIn(result.month)) =>
          result.out = Returned(<<>>)
    /\ (result.op = "owner_coverage" /\ NoRowsIn(result.month)) =>
          result.out = Returned([month |-> result.month, total_cost |-> 0,
                                 assigned_cost |-> 0, coverage_pct |-> 0])
    /\ (result.op \in {"find_idle_resources", "find_cost_spikes", "find_tagging_gaps"}
            /\ NoRowQualifies) =>
          result.out = Returned(<<>>)

\* C17 as stated: with the billing table present, a KPI query for a month
\* without rows returns an empty list, zero totals and coverage_pct 0, and
\* a detector returns an empty list when no row qualifies, the empty table
\* included; none raises.
C17_EmptyCohortAsStated == "billing" \notin dropped => EmptyCohortAnswer

\* C17 amended: the same whenever no two metadata rows have the same
\* resource_id after normalization.
C17_EmptyCohort ==
    ("billing" \notin dropped /\ NoDuplicateNormalizedIds) => EmptyCohortAnswer

\* a coverage query for a month without rows while the other month has some
C17_Witness ==
    /\ result.op = "owner_coverage"
    /\ NoRowsIn(result.month)
    /\ billing # <<>>
    /\ resources # <<>>
    /\ NoDuplicateNormalizedIds
    /\ result.out.status = "ok"
    /\ result.out.value.coverage_pct = 0

(***************************************************************************)
(* Properties of missing tables                                            *)
(***************************************************************************)
QueryOps ==
    {"enrich_billing", "monthly_cost_by_owner", "monthly_cost_by_env",
     "owner_coverage", "six_month_trend", "find_idle_resources", "find_cost_spikes",
     "find_tagging_gaps", "get_all_recommendations"}

\* C18: without the billing table every core operation fails with an error
\* and produces no result; without the resources table only, enrichment
\* succeeds and every record has owner = env = "unassigned".
C18_MissingTables ==
    /\ (result.op \in QueryOps /\ "billing" \in dropped) =>
          result.out = Raised("RuntimeError")
    /\ (result.op = "enrich_billing" /\ dropped = {"resources"}) =>
          /\ result.out.status = "ok"
          /\ Len(result.out.value) = Len(billing)
          /\ \A i \in 1..Len(billing) :
                /\ result.out.value[i].owner = "unassigned"
                /\ result.out.value[i].env = "unassigned"

\* billing was ingested into a database without tables and enriched
C18_Witness ==
    /\ result.op = "enrich_billing"
    /\ dropped = {"resources"}
    /\ Len(billing) = 2
    /\ result.out.status = "ok"
    /\ Len(result.out.value) = 2
    /\ result.out.value[2].owner = "unassigned"

(***************************************************************************)
(* Properties of the normalization                                         *)
(***************************************************************************)
\* null, or a non-empty string without surrounding whitespace
NullOrTrimmed(rid) ==
    \/ rid = NAid
    \/ /\ rid # <<>>
       /\ ~IsSpace(rid[1])
       /\ ~IsSpace(rid[Len(rid)])

NormalizedTable(stored, normalized) ==
    /\ Len(normalized) = Len(stored)
    /\ \A i \in 1..Len(stored) :
          /\ NullOrTrimmed(normalized[i].resource_id)
          /\ stored[i].resource_id = <<"n", "a", "n">> =>
                normalized[i].resource_id = NAid

\* a stored billing id and a stored metadata id that differ only by
\* surrounding whitespace
SameButWhitespace(a, b) ==
    /\ a # NAid
    /\ b # NAid
    /\ strip(a) = strip(b)
    /\ strip(a) # <<>>

\* C19: after normalization every resource_id of the billing and of the
\* metadata side is null or a whitespace-trimmed non-empty string, the
\* string "nan" is null, and a billing row takes the metadata of the row
\* whose id differs from its own only by surrounding whitespace.
C19_NormalizedIds ==
    /\ result.op = "normalize_resource_ids" =>
          /\ NormalizedTable(billing, result.billing)
          /\ NormalizedTable(resources, result.resources)
    /\ (result.op = "enrich_billing" /\ result.out.status = "ok") =>
          \A i \in 1..Len(billing), j \in 1..Len(resources) :
              SameButWhitespace(billing[i].resource_id, resources[j].resource_id) =>
                  /\ result.out.value[i].owner = resources[j].owner
                  /\ result.out.value[i].env = fillna(resources[j].env, "unassigned")

(***************************************************************************)
(* Frame of the requests                                                   *)
(***************************************************************************)
\* C20: a step of enrich_billing, of a KPI query, of a detector or of
\* get_all_recommendations leaves the billing table, the resources table
\* and the KPI cache unchanged; a get_kpis step leaves the tables unchanged
\* and changes at most the snapshot of its own month.
C20_RequestFrame ==
    [][/\ result'.op \in QueryOps =>
             /\ billing' = billing
             /\ resources' = resources
             /\ dropped' = dropped
             /\ cache' = cache
       /\ result'.op = "get_kpis" =>
             /\ billing' = billing
             /\ resources' = resources
             /\ dropped' = dropped
             /\ \A m \in KpiMonths \ {result'.month} : cache'[m] = cache[m]]_vars

\* get_kpis has replaced the snapshot of its month while the other month
\* holds a snapshot of its own
C20_Witness ==
    /\ result.op = "get_kpis"
    /\ cache[result.month] # result.snapshot0
    /\ result.snapshot0 # EmptySnapshot
    /\ \E m \in KpiMonths \ {result.month} :
          /\ cache[m] # EmptySnapshot
          /\ cache[m] # cache[result.month]

(***************************************************************************)
(* Properties of the idle detector                                         *)
(***************************************************************************)
HasId(r) == normalize_id(r.resource_id) # NAid

LatestMaxUsage ==
    CHOOSE u \in {to_numeric(LatestBilling[i].usage_qty) : i \in 1..Len(LatestBilling)} :
        \A i \in 1..Len(LatestBilling) : to_numeric(LatestBilling[i].usage_qty) <= u

\* utilization < usage_threshold and cost > cost_threshold, for the
\* thresholds of the call that answered
IdleRow(r) ==
    /\ LatestMaxUsage > 0
    /\ to_numeric(r.usage_qty) * result.usage_threshold[2]
          < result.usage_threshold[1] * LatestMaxUsage
    /\ to_numeric(r.cost) > result.cost_threshold

IdleRows == SelectSeq(LatestBilling, IdleRow)

IdleKey(r) ==
    <<normalize_id(r.resource_id), GroupOfRow(r, "owner"), GroupOfRow(r, "env")>>

\* the answer reports exactly the groups of rows, with 70% savings
IdleReports(rows) ==
    /\ Len(result.out.value) = 1
    /\ result.out.value[1].type = "idle_resources"
    /\ {<<Entries[k].resource_id, Entries[k].owner, Entries[k].environment>> :
            k \in 1..Len(Entries)}
          = {IdleKey(rows[i]) : i \in 1..Len(rows)}
    /\ \A k, l \in 1..Len(Entries) :
          Entries[k].resource_id = Entries[l].resource_id => k = l
    /\ \A k \in 1..Len(Entries) :
          /\ Entries[k].current_monthly_cost =
                RawCost(SelectSeq(rows, LAMBDA r :
                    normalize_id(r.resource_id) = Entries[k].resource_id))
          /\ Entries[k].potential_savings =
                RoundDiv(7 * Entries[k].current_monthly_cost, 10)
    /\ result.out.value[1].estimated_savings = Rat(7 * RawCost(rows), 10)

IdleAnswered == result.op = "find_idle_resources" /\ result.out.status = "ok"

LatestRowsOf(rid) ==
    SelectSeq(LatestBilling, LAMBDA r : normalize_id(r.resource_id) = rid)

\* the entries built from one flagged (resource, month)
EntriesOf(rid, m) ==
    SelectSeq(Entries, LAMBDA e : e.resource_id = rid /\ e.invoice_month = m)

\* the entry carries a cost of the resource in the latest month, or none
\* when the resource has no row there, and half of cost x pct_change
CostAttached(e) ==
    /\ IF LatestRowsOf(e.resource_id) = <<>> THEN e.current_monthly_cost = NaN
       ELSE \E i \in 1..Len(LatestRowsOf(e.resource_id)) :
               e.current_monthly_cost = <<to_numeric(LatestRowsOf(e.resource_id)[i].cost)>>
    /\ IF e.current_monthly_cost = NaN THEN e.potential_savings = NaN
       ELSE e.potential_savings =
               <<RoundDiv(e.current_monthly_cost[1] * e.pct_change[1], 2 * e.pct_change[2])>>

KnownEntries == SelectSeq(Entries, LAMBDA e : e.current_monthly_cost # NaN)

SpikesAnswered ==
    /\ result.op = "find_cost_spikes"
    /\ result.out.status = "ok"
    /\ result.out.value # <<>>

C29_SpikeJoinOneToOne ==
    SpikesAnswered =>
        /\ EveryRiseFlagged
        /\ \A k \in 1..Len(Entries) :
              /\ Len(EntriesOf(Entries[k].resource_id, Entries[k].invoice_month)) = 1
              /\ Entries[k].current_monthly_cost # NaN
              /\ Entries[k].potential_savings # NaN

(***************************************************************************)
(* Properties of the tagging detector                                      *)
(***************************************************************************)
TagRow(r) ==
    GroupOfRow(r, "owner") = "unassigned" \/ GroupOfRow(r, "env") = "unassigned"

TagRows == SelectSeq(LatestBilling, TagRow)

TagRowsOf(rid) == SelectSeq(TagRows, LAMBDA r : normalize_id(r.resource_id) = rid)

TagLabel(rows, col) ==
    IF \A i \in 1..Len(rows) : GroupOfRow(rows[i], col) = "unassigned"
    THEN "missing" ELSE "partial"

TaggingEntryRight(e) ==
    /\ e.monthly_unattributed_cost = RawCost(TagRowsOf(e.resource_id))
    /\ e.owner_tag = TagLabel(TagRowsOf(e.resource_id), "owner")
    /\ e.environment_tag = TagLabel(TagRowsOf(e.resource_id), "env")
    /\ e.potential_savings = RoundDiv(2 * e.monthly_unattributed_cost, 10)

TaggingAnswered == result.op = "find_tagging_gaps" /\ result.out.status = "ok"

ChangeNum(rid, p, m) ==
    RawUnitCost(RowsAt(rid, m)) * Len(RowsAt(rid, p))
        - RawUnitCost(RowsAt(rid, p)) * Len(RowsAt(rid, m))

ChangeDen(rid, p, m) == RawUnitCost(RowsAt(rid, p)) * Len(RowsAt(rid, m))

\* the mean unit cost of rid in m differs from its previous month's, which
\* is not 0, by at least thr in absolute relative value
ChangedBy(rid, p, m, thr) ==
    /\ IsPrevMonth(rid, p, m)
    /\ RawUnitCost(RowsAt(rid, p)) # 0
    /\ Abs(ChangeNum(rid, p, m)) * thr[2] >= thr[1] * ChangeDen(rid, p, m)

Changes == result.out.value

MonthRows(month) == SelectSeq(billing, LAMBDA r : r.invoice_month = month)

\* out lists each group of the month's rows once, with its summed cost, by
\* cost non-increasing; col is the column of the group in a pair
GroupTotals(out, month, col) ==
    /\ {out[k][col] : k \in 1..Len(out)}
          = {GroupOfRow(MonthRows(month)[i], col) : i \in 1..Len(MonthRows(month))}
    /\ \A k, l \in 1..Len(out) : out[k][col] = out[l][col] => k = l
    /\ \A k \in 1..Len(out) :
          out[k].cost = RawCost(SelectSeq(MonthRows(month),
                                    LAMBDA r : GroupOfRow(r, col) = out[k][col]))
    /\ \A k, l \in 1..Len(out) : k < l => out[k].cost >= out[l].cost

\* C25: monthly_cost_by_owner(month) and monthly_cost_by_env(month) return
\* one (group, cost) pair per distinct owner, resp. env, of the enriched
\* rows whose invoice_month equals month, the cost being the sum of those
\* rows' costs, ordered by cost non-increasing.
C25_MonthlyGroupTotals ==
    /\ (result.op = "monthly_cost_by_owner" /\ result.out.status = "ok") =>
          GroupTotals(result.out.value, result.month, "owner")
    /\ (result.op = "monthly_cost_by_env" /\ result.out.status = "ok") =>
          GroupTotals(result.out.value, result.month, "env")

\* two owners in the month, the costlier one later in key order
C25_Witness ==
    /\ result.op = "monthly_cost_by_owner"
    /\ result.out.status = "ok"
    /\ Len(result.out.value) = 2
    /\ StrLess(result.out.value[2].owner, result.out.value[1].owner)
    /\ result.out.value[1].cost > result.out.value[2].cost

(***************************************************************************)
(* Properties of top_n_cost_drivers                                        *)
(***************************************************************************)
RawTopKey(r) ==
    <<normalize_id(r.resource_id), r.service, r.resource_group, GroupOfRow(r, "owner")>>

\* the groups of the month's billing rows
MonthGroups(month) == {RawTopKey(MonthRows(month)[i]) : i \in 1..Len(MonthRows(month))}

GroupCost(month, key) ==
    RawCost(SelectSeq(MonthRows(month), LAMBDA r : RawTopKey(r) = key))

Top == result.out.value

TopKeys == {TopKey(Top[k]) : k \in 1..Len(Top)}

\* count of the month's groups with the greatest costs, in order
TopOf(count) ==
    /\ Len(Top) = count
    /\ TopKeys \subseteq MonthGroups(result.month)
    /\ \A k, l \in 1..Len(Top) : TopKey(Top[k]) = TopKey(Top[l]) => k = l
    /\ \A k \in 1..Len(Top) : Top[k].cost = GroupCost(result.month, TopKey(Top[k]))
    /\ \A k, l \in 1..Len(Top) : k < l => Top[k].cost >= Top[l].cost
    /\ \A key \in MonthGroups(result.month) \ TopKeys :
          \A k \in 1..Len(Top) : GroupCost(result.month, key) <= Top[k].cost

NumGroups == Cardinality(MonthGroups(result.month))

TopAnswered == result.op = "top_n_cost_drivers" /\ result.out.status = "ok"

\* C26 as stated: for any integer n, top_n_cost_drivers(month, n) returns
\* the min(n, G) groups of greatest summed cost of the month (none when n
\* is not positive), by cost non-increasing, no omitted group costlier than
\* a returned one.
C26_TopNAsStated ==
    TopAnswered =>
        TopOf(IF result.n <= 0 THEN 0
              ELSE IF result.n < NumGroups THEN result.n ELSE NumGroups)

\* C26 amended: so for n >= 0; for n < 0 it returns all groups but the -n
\* of least cost.
C26_TopN ==
    TopAnswered =>
        TopOf(IF result.n >= 0
              THEN (IF result.n < NumGroups THEN result.n ELSE NumGroups)
              ELSE (IF NumGroups + result.n > 0 THEN NumGroups + result.n ELSE 0))

\* one of two groups returned, the costlier
C26_Witness ==
    /\ TopAnswered
    /\ result.n = 1
    /\ NumGroups = 2
    /\ Len(Top) = 1
    /\ \E key \in MonthGroups(result.month) : GroupCost(result.month, key) < Top[1].cost

(***************************************************************************)
(* Shape of the detectors' answers                                         *)
(***************************************************************************)
TypeRank(type) ==
    CASE type = "idle_resources" -> 1
      [] type = "cost_spikes" -> 2
      [] type = "tagging_gaps" -> 3
      [] OTHER -> 0

DetectorType ==
    CASE result.op = "find_idle_resources" -> "idle_resources"
      [] result.op = "find_cost_spikes" -> "cost_spikes"
      [] result.op = "find_tagging_gaps" -> "tagging_gaps"
      [] OTHER -> "none"

Recs == result.out.value.recommendations

\* at most one recommendation of each type, in the order idle_resources,
\* cost_spikes, tagging_gaps
ReportOrdered ==
    /\ Len(Recs) <= 3
    /\ \A k \in 1..Len(Recs) : TypeRank(Recs[k].type) > 0
    /\ \A k, l \in 1..Len(Recs) : k < l => TypeRank(Recs[k].type) < TypeRank(Recs[l].type)

\* C27 as stated: a detector returns an empty list or exactly one
\* Recommendation of its type, a returned Recommendation lists at least one
\* resource, and the report holds at most three recommendations, at most
\* one of each type, in the order idle_resources, cost_spikes, tagging_gaps.
C27_DetectorShape ==
    /\ (DetectorType # "none" /\ result.out.status = "ok") =>
          /\ Len(result.out.value) <= 1
          /\ \A k \in 1..Len(result.out.value) :
                /\ result.out.value[k].type = DetectorType
                /\ result.out.value[k].resources # <<>>
    /\ (result.op = "get_all_recommendations" /\ result.out.status = "ok") =>
          /\ ReportOrdered
          /\ \A k \in 1..Len(Recs) : Recs[k].resources # <<>>


(***************************************************************************)
(* Properties of requests under writes                                     *)
(***************************************************************************)
\* what GET /kpi computes when it runs alone over the first k billing rows
\* and the first j metadata rows: the tables only grow, so these are the
\* states the store went through
AnswerAt(k, j, month) ==
    kpis_fresh(SubSeq(billing, 1, k), SubSeq(resources, 1, j), month, EmptySnapshot)

StoreStates == (0..Len(billing)) \X (0..Len(resources))

\* the request of client c ends in this step and it queried the tables
ComputedReturn(c) ==
    /\ reqs[c].pc \in {"compute", "recompute", "write"}
    /\ reqs'[c].pc = "idle"

NoWriteSince(c) == reqs[c].rows0 = <<Len(billing), Len(resources)>>

KpiMiss == result.op = "get_kpis" /\ (result.refresh \/ ~Complete(result.snapshot0))

\* the snapshot of the month is the one a miss over the tables as they are
\* writes: the data did not change since it was cached
SnapshotCurrent(month) ==
    /\ Fresh(month).out.status = "ok"
    /\ cache[month] = Fresh(month).snapshot

\* C30: a GET /kpi that misses the cache and answers leaves the three files
\* of the month in place; a GET /kpi without refresh is served from the
\* files only when the three exist, and is computed from the tables
\* otherwise; and a request served from a snapshot of unchanged data
\* returns the cost_by_owner, cost_by_env and owner_coverage the miss
\* returned.
C30_CacheTransparent ==
    /\ (KpiMiss /\ result.out.status = "ok") => Complete(cache[result.month])
    /\ KpiMiss => result.out = Fresh(result.month).out
    /\ (KpiHit /\ SnapshotCurrent(result.month)) =>
           result.out = Fresh(result.month).out

====
